---- MODULE Spec2Model ----
(***************************************************************************)
(* A model of gdl's download orchestration engine: the path sanitizer and  *)
(* layout planner (paths.rs), the overwrite gate (overwrite.rs), the       *)
(* response cache and the HTTP wrapper (cache.rs, http.rs, rate_limit.rs), *)
(* the three pipelines (download/manager.rs, git/sparse.rs,                *)
(* zip/archive.rs) and the strategy selector (download/manager.rs).        *)
(*                                                                         *)
(* Strings are sequences of one-character strings.  Paths are modelled as  *)
(* std::path does on Unix: a string is parsed into components.             *)
(***************************************************************************)
EXTENDS Integers, Sequences, FiniteSets, TLC

VARIABLES
    \* ---- command line, forge content and local environment (inputs) ----
    strategy,       \* --strategy: "Api" | "Git" | "Zip" | "Auto"
    git_avail,      \* git_available(): the VCS client is on PATH
    request,        \* RequestInfo: [path, has_trailing_slash, kind]
    output,         \* --output: None or Some(components)
    contents,       \* Api: the listing the forge returns for request.path
    sublisting,     \* Api: the listing the forge returns for each Dir item
    entries,        \* Git: the checked-out work tree; Zip: the archive entries
    force,          \* --force
    tty,            \* [out, in]: atty::is(Stdout), atty::is(Stdin)
    answer,         \* the line the prompt reads from stdin
    parallel,       \* --parallel
    \* ---- strategy selector (download_github_path) ----
    spc,            \* "idle" | "running" | "returned"
    attempts,       \* history: the strategies attempted, in order
    errs,           \* the error of each failed attempt, in order
    result,         \* [ok, err]: what download_github_path returned
    \* ---- pipeline state ----
    pipeline,       \* "Api" | "Git" | "Zip" | "None": the pipeline that runs
    ppc,            \* position in the pipeline
    base_path,      \* components
    output_dir,     \* components
    tasks,          \* Seq of [item, target_path]
    perr,           \* the error the pipeline returned (a chain, <<>> when none)
    fs,             \* local files: normalized path -> "old" | "partial" | "new"
    fs0,            \* history: fs when the pipeline started
    dl,             \* Api: per task "idle" | "requesting" | "streaming" | "done"
    next_task,      \* index of the next task to start
    gate_log,       \* history: [run, targets, fsys, res, prompted] of each gate
    \* ---- clock, response cache, HTTP wrapper, rate-limit tracker ----
    now,            \* SystemTime::now() in seconds
    cache,          \* responses cache dir: key -> "missing" | "unreadable" |
                    \*   "corrupt" | "entry" with a CachedResponse
    server,         \* the responses the forge may give
    hpc,            \* "idle" | "request" | "responded" | "returned" | "panicked"
    call,           \* the call in progress and what its cache lookup saw
    attempt,        \* send_github_request: the loop variable
    sent,           \* history: requests sent by the call in progress
    slept,          \* history: seconds slept by the call in progress
    sres,           \* what send_github_request returned
    hres,           \* what the call returned
    tracker,        \* RateLimitState
    last_saved,     \* history: url -> the entry save_cached_response last persisted
    received,       \* history: the responses of this call, each with its time
    \* ---- a function of the program called on its own ----
    applied,        \* [fn, arg, at, out]: the last call, its time and its outcome
    \* ---- one call of download_file ----
    tfile,          \* what is at target_path: [kind, bytes]
    dpc,            \* "idle" | "first" | "fresh" | "returned"
    dcall,          \* the item, no_cache, and what the call saw and did so far
    dres,           \* what download_file returned
    \* ---- one enumeration by collect_download_tasks ----
    lpc,            \* "idle" | "running" | "done" | "failed"
    ls,             \* per directory: "waiting" | "fetching" | "expanding" | "done"
    \* ---- one save and one load of the same cache key, side by side ----
    disk,           \* [path, tmp, data]: the inode behind <key>.json and behind
                    \*   <key>.json.tmp (0: no such file), and what each inode holds
    saver,          \* [pc, entry]: save_cached_response
    loader,         \* [pc, ino, observed, out]: load_cached_response
    \* ---- two saves of the same cache key, side by side ----
    rdisk,          \* [path, tmp, data, free]: the inode behind <key>.json and
                    \*   behind <key>.json.tmp, the bytes of each inode, and
                    \*   the next inode to hand out
    writers,        \* per call of save_cached_response: [pc, fd, off]
    \* ---- calls of record_headers on one tracker, side by side ----
    mutex,          \* RateLimitTracker.state: 0 when free, else the call holding it
    callers,        \* per call: [pc, headers, snapshot, seen, ret]
    recorded,       \* history: per call that took the mutex, in that order,
                    \*   [snapshot, warn_low]
    \* ---- runs of the archive pipeline over one repo cache ----
    repo_cache,     \* [zip, tmp]: what is at <owner>-<repo>-<hash8>.zip and at
                    \*   <owner>-<repo>-<hash8>.zip.tmp: [kind, bytes]
    zpc,            \* "idle" | "download" | "extracting" | "failed"
    zcall,          \* the run: no_cache, what it found, sent and opened
    zruns,          \* the number of runs started
    \* ---- main: the loop over the URLs of the command line ----
    urls,           \* the requests of the URLs given, in order
    url_idx,        \* the URL the loop is at
    main_pc,        \* "loop" | "calling" | "ok" | "err"
    main_err,       \* the error main returned
    started,        \* history: per call of download_github_path, [idx, fsys, res]
    \* ---- download_all_files over one DownloadProgress ----
    progress,       \* [total_files, downloaded_files, total_bytes, downloaded_bytes]
    pmutex,         \* the Mutex around it: 0 when free, else the task holding it
    jobs,           \* per task: [pc, size, seen]
    fan_pc,         \* "new" | "running" | "ok" | "failed" | "panicked"
    \* ---- runs of the VCS pipeline over one cached clone ----
    git_repo,       \* the cache directory: [cloned, sparse], sparse the
                    \*   sparse-checkout configuration: None or Some([cone, target])
    gpc,            \* "idle" | "prepared" | "configured"
    gcall,          \* the run: [req, before]
    gdone           \* history: per run that ended, [req, before, ok, copied]

cmdVars  == <<strategy, git_avail, request, output, contents, sublisting, entries,
              force, tty, answer, parallel>>
fileVars == <<tfile, dpc, dcall, dres>>
listVars == <<lpc, ls>>
diskVars == <<disk, saver, loader>>
raceVars == <<rdisk, writers>>
trackVars == <<mutex, callers, recorded>>
zipVars == <<repo_cache, zpc, zcall, zruns>>
batchVars == <<urls, url_idx, main_pc, main_err, started>>
progVars == <<progress, pmutex, jobs, fan_pc>>
gitcVars == <<git_repo, gpc, gcall, gdone>>
unitVars == <<raceVars, trackVars, zipVars, batchVars, progVars, gitcVars>>
restRaceVars == <<cmdVars, applied, fileVars, listVars, diskVars, trackVars, zipVars, batchVars, progVars, gitcVars>>
restTrackVars == <<cmdVars, applied, fileVars, listVars, diskVars, raceVars, zipVars, batchVars, progVars, gitcVars>>
restZipVars == <<cmdVars, applied, fileVars, listVars, diskVars, raceVars, trackVars, batchVars, progVars, gitcVars>>
restBatchVars == <<cmdVars, applied, fileVars, listVars, diskVars, raceVars, trackVars, zipVars, progVars, gitcVars>>
restProgVars == <<cmdVars, applied, fileVars, listVars, diskVars, raceVars, trackVars, zipVars, batchVars, gitcVars>>
restGitcVars == <<cmdVars, applied, fileVars, listVars, diskVars, raceVars, trackVars, zipVars, batchVars, progVars>>
inVars   == <<cmdVars, unitVars, applied, fileVars, listVars, diskVars>>
selVars  == <<spc, attempts, errs, result>>
pipeVars == <<pipeline, ppc, base_path, output_dir, tasks, perr, fs, fs0, dl,
              next_task, gate_log>>

httpVars == <<now, cache, server, hpc, call, attempt, sent, slept, sres, hres,
              tracker, last_saved, received>>

vars == <<inVars, selVars, pipeVars, httpVars>>

----------------------------------------------------------------------------
(* Bounds of the model *)

MaxPathLen == 4          \* longest forge path enumerated exhaustively
TimeMax == 4             \* the last second a SystemTime holds (i64::MAX); < U64Max
U64Max == 5              \* the largest u64 of the model: seconds are 0..U64Max
MaxParallel == 2         \* the largest --parallel, below the four tasks of a fan-out
TtlSecs == 2             \* the cache TTL of the model, in seconds

----------------------------------------------------------------------------
(* Strings *)

Chars == {"a", ".", "/"}

StrUpTo(n) == UNION {[1..k -> Chars] : k \in 0..n}

Last(s) == s[Len(s)]
Front(s) == SubSeq(s, 1, Len(s) - 1)

IsPrefixOf(p, s) == Len(p) <= Len(s) /\ SubSeq(s, 1, Len(p)) = p

\* str::starts_with
StartsWith(s, p) == IsPrefixOf(p, s)

RECURSIVE TrimStartSlash(_)
TrimStartSlash(s) ==
    IF s # <<>> /\ Head(s) = "/" THEN TrimStartSlash(Tail(s)) ELSE s

RECURSIVE TrimEndSlash(_)
TrimEndSlash(s) ==
    IF s # <<>> /\ Last(s) = "/" THEN TrimEndSlash(Front(s)) ELSE s

\* str::trim_matches('/')
TrimSlashes(s) == TrimEndSlash(TrimStartSlash(s))

\* the pieces of s between '/' separators, empty pieces kept
RECURSIVE Segs(_, _, _)
Segs(s, cur, out) ==
    IF s = <<>> THEN Append(out, cur)
    ELSE IF Head(s) = "/" THEN Segs(Tail(s), <<>>, Append(out, cur))
    ELSE Segs(Tail(s), Append(cur, Head(s)), out)

----------------------------------------------------------------------------
(* std::path on Unix: components, strip_prefix, parent, file_name, join *)

RootDir   == [k |-> "RootDir",   s |-> <<>>]
CurDir    == [k |-> "CurDir",    s |-> <<>>]
ParentDir == [k |-> "ParentDir", s |-> <<>>]
Normal(seg) == [k |-> "Normal", s |-> seg]

RECURSIVE BodyComponents(_)
BodyComponents(segs) ==
    IF segs = <<>> THEN <<>>
    ELSE LET g == Head(segs) IN
         IF g = <<>> \/ g = <<".">> THEN BodyComponents(Tail(segs))
         ELSE IF g = <<".", ".">> THEN <<ParentDir>> \o BodyComponents(Tail(segs))
         ELSE <<Normal(g)>> \o BodyComponents(Tail(segs))

\* Path::components: a leading '/' is RootDir, a leading "." is CurDir, every
\* other "." and every empty piece is dropped, ".." is ParentDir.
Components(s) ==
    LET has_root == s # <<>> /\ Head(s) = "/"
        parse(segs, lead_cur) ==
            (IF has_root THEN <<RootDir>> ELSE <<>>)
            \o (IF lead_cur THEN <<CurDir>> ELSE <<>>)
            \o BodyComponents(IF lead_cur THEN Tail(segs) ELSE segs)
        split(segs) == parse(segs, ~has_root /\ Head(segs) = <<".">>)
    IN  split(Segs(s, <<>>, <<>>))

None == [some |-> FALSE, v |-> <<>>]
Some(x) == [some |-> TRUE, v |-> x]

\* Path::strip_prefix, on components
strip_prefix(path, base) ==
    IF IsPrefixOf(base, path)
    THEN Some(SubSeq(path, Len(base) + 1, Len(path)))
    ELSE None

\* Path::parent, on components
parent(path) ==
    IF path = <<>> THEN None
    ELSE IF Last(path).k = "RootDir" THEN None
    ELSE Some(Front(path))

\* a path whose last component is never taken for a name
file_name_none(path) == None

\* Path::file_name, on components
file_name(path) ==
    IF path # <<>> /\ Last(path).k = "Normal" THEN Some(Last(path).s) ELSE None

\* Path::join: an absolute right-hand side replaces the left-hand side
Join(dir, rel) ==
    IF rel # <<>> /\ Head(rel).k = "RootDir" THEN rel ELSE dir \o rel

\* lexical normalization of a target path: "." dropped, ".." pops
RECURSIVE LexNormalize(_, _)
LexNormalize(path, acc) ==
    IF path = <<>> THEN acc
    ELSE LET c == Head(path) IN
         IF c.k = "CurDir" THEN LexNormalize(Tail(path), acc)
         ELSE IF c.k = "RootDir" THEN LexNormalize(Tail(path), <<RootDir>>)
         ELSE IF c.k = "ParentDir"
              THEN IF acc # <<>> /\ Last(acc).k = "Normal"
                   THEN LexNormalize(Tail(path), Front(acc))
                   ELSE IF acc # <<>> /\ Last(acc).k = "RootDir"
                        THEN LexNormalize(Tail(path), acc)
                        ELSE LexNormalize(Tail(path), Append(acc, c))
         ELSE LexNormalize(Tail(path), Append(acc, c))

Norm(path) == LexNormalize(path, <<>>)

\* target lies strictly below root, lexically
IsDescendant(target, root) ==
    LET below(t, r) ==
            /\ IsPrefixOf(r, t)
            /\ Len(t) > Len(r)
            /\ \A i \in (Len(r) + 1)..Len(t) : t[i].k = "Normal"
    IN  below(Norm(target), Norm(root))

AllNormal(path) == \A i \in 1..Len(path) : path[i].k = "Normal"

----------------------------------------------------------------------------
(* paths.rs: the path sanitizer and the layout planner *)

\* GitHubContent: the fields the planner reads
Item(p, n, t) == [path |-> p, name |-> n, type |-> t]

Ok(path)  == [ok |-> TRUE,  path |-> path, err |-> "None"]
Err(kind) == [ok |-> FALSE, path |-> <<>>, err |-> kind]

\* the part of the forge path the sanitizer examines: the path with base_path
\* stripped (the whole path when base_path is empty or no prefix of it), or
\* the item's name when that is empty
Remainder(base, item) ==
    LET or_name(relative) ==
            IF relative = <<>> THEN Components(item.name) ELSE relative
        unwrap(full_path, stripped) ==
            or_name(IF base = <<>> THEN full_path
                    ELSE IF stripped.some THEN stripped.v ELSE full_path)
        strip(full_path) == unwrap(full_path, strip_prefix(full_path, base))
    IN  strip(Components(item.path))

\* a sanitizer whose loop lets ".." through
RejectsRootOnly(c) == c.k = "RootDir"

\* the match arm `_ =>` of the component loop: anything but Normal and CurDir
Rejects(c) == c.k \notin {"Normal", "CurDir"}

relative_path(base, item) ==
    LET finish(sanitized) ==
            IF sanitized = <<>>
            THEN Ok(Components(item.name))       \* sanitized.push(&item.name)
            ELSE Ok(sanitized)
        loop(relative) ==
            IF \E i \in 1..Len(relative) : Rejects(relative[i])
            THEN Err("UnsafePath")
            ELSE finish(SelectSeq(relative, LAMBDA c : c.k = "Normal"))
    IN  loop(Remainder(base, item))

Dot == <<CurDir>>                                \* PathBuf::from(".")

compute_base_and_default_output(req, treat_as_single_file, file_path_override) ==
    IF treat_as_single_file
    THEN LET single(p) ==
                 [base |-> IF p.some THEN p.v ELSE <<>>, default_output |-> Dot]
         IN  single(parent(Components(IF file_path_override.some
                                      THEN file_path_override.v ELSE req.path)))
    ELSE LET dir(base, name) ==
                 [base |-> base,
                  default_output |->
                      IF req.has_trailing_slash \/ base = <<>> THEN Dot
                      ELSE IF name.some THEN <<Normal(name.v)>> ELSE Dot]
             named(base) == dir(base, file_name(base))
         IN  named(Components(TrimSlashes(req.path)))

IsSingleFile(cs) == Len(cs) = 1 /\ cs[1].type = "File"

determine_paths(req, cs) ==
    compute_base_and_default_output(
        req, IsSingleFile(cs), IF cs = <<>> THEN None ELSE Some(cs[1].path))

\* describe_download_target: only its failure matters
describe_download_target(base, cs) ==
    IF IsSingleFile(cs) THEN relative_path(base, cs[1]) ELSE Ok(<<>>)

----------------------------------------------------------------------------
(* download/tasks.rs: collect_download_tasks *)

TasksOk(ts)    == [ok |-> TRUE,  tasks |-> ts,   err |-> "None"]
TasksErr(kind) == [ok |-> FALSE, tasks |-> <<>>, err |-> kind]

\* the `for item in contents` loop: the first failing File aborts
RECURSIVE collect_files(_, _, _, _)
collect_files(base, out, items, acc) ==
    IF items = <<>> THEN TasksOk(acc)
    ELSE LET item == Head(items)
             push(r) ==
                 IF ~r.ok THEN TasksErr(r.err)
                 ELSE collect_files(base, out, Tail(items),
                          Append(acc, [item |-> item,
                                       target_path |-> Join(out, r.path)]))
         IN  IF item.type = "File"
             THEN push(relative_path(base, item))
             ELSE collect_files(base, out, Tail(items), acc)

\* the directory fan-out: each Dir item is listed and collected in turn
RECURSIVE collect_dirs(_, _, _, _, _)
collect_dirs(base, out, dirs, sub, acc) ==
    IF dirs = <<>> THEN TasksOk(acc)
    ELSE LET extend(r) ==
                 IF ~r.ok THEN r
                 ELSE collect_dirs(base, out, Tail(dirs), sub, acc \o r.tasks)
         IN  extend(collect_files(base, out, sub[Head(dirs).path], <<>>))

collect_download_tasks(base, out, cs, sub) ==
    LET fan_out(files) ==
            IF ~files.ok THEN files
            ELSE collect_dirs(base, out, SelectSeq(cs, LAMBDA it : it.type = "Dir"),
                              sub, files.tasks)
    IN  fan_out(collect_files(base, out, cs, <<>>))

----------------------------------------------------------------------------
(* overwrite.rs: the overwrite gate *)

WhiteSpace == {" ", "\n", "\t", "\r"}

RECURSIVE TrimStart(_)
TrimStart(s) == IF s # <<>> /\ Head(s) \in WhiteSpace THEN TrimStart(Tail(s)) ELSE s

RECURSIVE TrimEnd(_)
TrimEnd(s) == IF s # <<>> /\ Last(s) \in WhiteSpace THEN TrimEnd(Front(s)) ELSE s

\* str::trim
Trim(s) == TrimEnd(TrimStart(s))

LowerChar(c) ==
    CASE c = "Y" -> "y" [] c = "E" -> "e" [] c = "S" -> "s" [] c = "N" -> "n"
      [] OTHER -> c

\* str::to_lowercase
RECURSIVE to_lowercase(_)
to_lowercase(s) ==
    IF s = <<>> THEN <<>> ELSE <<LowerChar(Head(s))>> \o to_lowercase(Tail(s))

\* Path::exists on the local file system
Exists(fsys, path) == Norm(path) \in DOMAIN fsys

\* a comparison that forgets to trim the line
AnswerIsYesNoTrim(ans) ==
    LET yes(a) == a = <<"y">> \/ a = <<"y", "e", "s">>
    IN  yes(to_lowercase(ans))

\* let answer = input.trim().to_lowercase(); answer == "y" || answer == "yes"
AnswerIsYes(ans) ==
    LET yes(a) == a = <<"y">> \/ a = <<"y", "e", "s">>
    IN  yes(to_lowercase(Trim(ans)))

\* stdin gave no line: read_line failed
ReadFailed == <<"EIO">>

prompt_user_for_overwrite(ans) ==
    IF ans = ReadFailed THEN [res |-> "IoError", prompted |-> TRUE]   \* read_line(..)?
    ELSE IF AnswerIsYes(ans) THEN [res |-> "Ok", prompted |-> TRUE]
    ELSE [res |-> "Cancelled", prompted |-> TRUE]

check_overwrite_permission(targets, fsys, frc, t, ans) ==
    LET existing_files == SelectSeq(targets, LAMBDA p : Exists(fsys, p))
        is_tty == t.out /\ t.in
    IN  IF existing_files = <<>> THEN [res |-> "Ok", prompted |-> FALSE]
        ELSE IF frc THEN [res |-> "Ok", prompted |-> FALSE]
        ELSE IF ~is_tty THEN [res |-> "RefusedOverwrite", prompted |-> FALSE]
        ELSE prompt_user_for_overwrite(ans)

RECURSIVE MapTargets(_)
MapTargets(ts) ==
    IF ts = <<>> THEN <<>> ELSE <<Head(ts).target_path>> \o MapTargets(Tail(ts))

\* collect_target_paths
collect_target_paths(ts) == MapTargets(ts)

----------------------------------------------------------------------------
(* errors: an anyhow chain, outermost context first, root cause last *)

E(msg) == [msg |-> msg, mentions |-> <<>>]

\* Error::context
context(err, c) == <<c>> \o err

\* Display of an anyhow error: its outermost message
Display(err) == Head(err).msg

\* Error::root_cause
root_cause(err) == Last(err)

----------------------------------------------------------------------------
(* the pipelines: shared steps *)

Put(fsys, path, v) ==
    LET write(p) == [k \in DOMAIN fsys \cup {p} |-> IF k = p THEN v ELSE fsys[k]]
    IN  write(Norm(path))

Remove(fsys, path) == [k \in DOMAIN fsys \ {Norm(path)} |-> fsys[k]]

\* a failure that is recorded while the pipeline goes on
PipeFailGoOn(err) ==
    /\ ppc' = ppc
    /\ perr' = err

PipeFail(err) ==
    /\ ppc' = "failed"
    /\ perr' = err

\* a gate whose result is dropped
ProceedAlways(res) == TRUE

\* the `?` after check_overwrite_permission: only Ok goes on to the writes
ProceedAfterGate(res) == res = "Ok"

\* the overwrite gate of the running pipeline, evaluated over all its tasks
OverwriteGate(p) ==
    /\ pipeline = p
    /\ ppc = "collected"
    /\ LET decide(target_paths, g) ==
               /\ gate_log' = Append(gate_log, [run |-> Len(attempts),
                                                targets |-> target_paths,
                                                fsys |-> fs,
                                                res |-> g.res,
                                                prompted |-> g.prompted])
               /\ IF ProceedAfterGate(g.res)
                  THEN ppc' = "gated" /\ perr' = perr
                  ELSE PipeFail(<<E(g.res)>>)
           gate(target_paths) ==
               decide(target_paths,
                      check_overwrite_permission(target_paths, fs, force, tty, answer))
       IN  gate(collect_target_paths(tasks))
    /\ UNCHANGED <<httpVars, inVars, selVars, pipeline, base_path, output_dir, tasks, fs, fs0,
                   dl, next_task>>

\* an I/O, network or subprocess failure of the environment before the gate
EnvFailure(p, at, ctx) ==
    /\ pipeline = p
    /\ ppc = at
    /\ PipeFail(<<E(ctx), E("IoError")>>)
    /\ UNCHANGED <<httpVars, inVars, selVars, pipeline, base_path, output_dir, tasks, fs, fs0,
                   dl, next_task, gate_log>>

PipeFinish(p) ==
    /\ pipeline = p
    /\ ppc = "gated"
    /\ next_task > Len(tasks)
    /\ \A i \in 1..Len(tasks) : dl[i] = "done"
    /\ ppc' = "done"
    /\ UNCHANGED <<httpVars, inVars, selVars, pipeline, base_path, output_dir, tasks, perr,
                   fs, fs0, dl, next_task, gate_log>>

----------------------------------------------------------------------------
(* download/manager.rs: the API pipeline, download_via_rest *)

\* fetch_github_contents .. describe_download_target (lines 250-268)
RestList ==
    /\ pipeline = "Api"
    /\ ppc = "start"
    /\ IF contents = <<>>
       THEN PipeFail(<<E("NoContent")>>) /\ UNCHANGED <<base_path, output_dir>>
       ELSE LET describe(lay, d) ==
                    /\ base_path' = lay.base
                    /\ output_dir' = IF output.some THEN output.v
                                     ELSE lay.default_output
                    /\ IF d.ok THEN ppc' = "listed" /\ perr' = perr
                       ELSE PipeFail(<<E(d.err)>>)
                layout(lay) ==
                    describe(lay, describe_download_target(lay.base, contents))
            IN  layout(determine_paths(request, contents))
    /\ UNCHANGED <<httpVars, inVars, selVars, pipeline, tasks, fs, fs0, dl, next_task, gate_log>>

\* build_file_inventory, ensure_directory, collect_download_tasks (lines 269-320)
RestCollect ==
    /\ pipeline = "Api"
    /\ ppc = "listed"
    /\ LET collected(r) ==
               IF r.ok
               THEN /\ tasks' = r.tasks
                    /\ dl' = [i \in 1..Len(r.tasks) |-> "idle"]
                    /\ ppc' = "collected"
                    /\ perr' = perr
               ELSE /\ PipeFail(<<E(r.err)>>)
                    /\ UNCHANGED <<tasks, dl>>
       IN  collected(collect_download_tasks(base_path, output_dir, contents,
                                            sublisting))
    /\ next_task' = 1
    /\ UNCHANGED <<httpVars, inVars, selVars, pipeline, base_path, output_dir, fs, fs0, gate_log>>

InFlight == {j \in 1..Len(tasks) : dl[j] \in {"requesting", "streaming"}}

\* a fan-out as wide as the task list
effective_parallel_all == Len(tasks)

\* let effective_parallel = parallel.max(1)
effective_parallel == IF parallel > 1 THEN parallel ELSE 1

\* buffer_unordered polls the next task while a slot is free; download_file
\* starts with check_partial_download, which may remove an existing target
DownloadStart(i) ==
    /\ pipeline = "Api"
    /\ ppc = "gated"
    /\ i = next_task
    /\ i <= Len(tasks)
    /\ Cardinality(InFlight) < effective_parallel
    /\ dl' = [dl EXCEPT ![i] = "requesting"]
    /\ next_task' = i + 1
    /\ \E keep \in BOOLEAN :
          fs' = IF Exists(fs, tasks[i].target_path) /\ ~keep
                THEN Remove(fs, tasks[i].target_path) ELSE fs
    /\ UNCHANGED <<httpVars, inVars, selVars, pipeline, ppc, base_path, output_dir, tasks,
                   perr, fs0, gate_log>>

\* send_github_request returned: the target is created, or opened for append
DownloadRespond(i) ==
    /\ pipeline = "Api"
    /\ ppc = "gated"
    /\ i \in 1..Len(tasks)
    /\ dl[i] = "requesting"
    /\ \E ok \in BOOLEAN, removed \in BOOLEAN :
          IF ok
          THEN /\ dl' = [dl EXCEPT ![i] = "streaming"]
               /\ fs' = Put(fs, tasks[i].target_path, "partial")
               /\ UNCHANGED <<ppc, perr>>
          ELSE /\ PipeFail(<<E("failed to download"), E("RemoteError")>>)
               /\ fs' = IF removed THEN Remove(fs, tasks[i].target_path) ELSE fs
               /\ dl' = dl
    /\ UNCHANGED <<httpVars, inVars, selVars, pipeline, base_path, output_dir, tasks, fs0,
                   next_task, gate_log>>

\* the body was streamed and flushed, then the hash was verified
DownloadFinish(i) ==
    /\ pipeline = "Api"
    /\ ppc = "gated"
    /\ i \in 1..Len(tasks)
    /\ dl[i] = "streaming"
    /\ \E outcome \in {"ok", "stream_error", "hash_mismatch"} :
          CASE outcome = "ok" ->
                 /\ dl' = [dl EXCEPT ![i] = "done"]
                 /\ fs' = Put(fs, tasks[i].target_path, "new")
                 /\ UNCHANGED <<ppc, perr>>
            [] outcome = "stream_error" ->
                 /\ PipeFail(<<E("failed to read data"), E("NetworkError")>>)
                 /\ UNCHANGED <<fs, dl>>
            [] outcome = "hash_mismatch" ->
                 /\ PipeFail(<<E("CorruptPayload")>>)
                 /\ fs' = Remove(fs, tasks[i].target_path)
                 /\ dl' = dl
    /\ UNCHANGED <<httpVars, inVars, selVars, pipeline, base_path, output_dir, tasks, fs0,
                   next_task, gate_log>>

NextApi ==
    \/ RestList
    \/ RestCollect
    \/ EnvFailure("Api", "listed", "failed to enumerate files")
    \/ OverwriteGate("Api")
    \/ \E i \in 1..Len(tasks) : DownloadStart(i)
    \/ \E i \in 1..Len(tasks) : DownloadRespond(i)
    \/ \E i \in 1..Len(tasks) : DownloadFinish(i)
    \/ PipeFinish("Api")

----------------------------------------------------------------------------
(* git/sparse.rs: the VCS pipeline, download_via_git_blocking *)

\* the GitHubContent both local pipelines build for a file at `path`
LocalContent(path) ==
    LET named(name) == Item(path, IF name.some THEN name.v ELSE path, "File")
    IN  named(file_name(Components(path)))

\* relative_path and output_dir.join for one file, appended to acc
PushTask(base, out, item, acc) ==
    LET push(r) ==
            IF ~r.ok THEN TasksErr(r.err)
            ELSE TasksOk(Append(acc, [item |-> item,
                                      target_path |-> Join(out, r.path)]))
    IN  push(relative_path(base, item))

\* the entries of the work tree at or below the directory `root`
Under(root, path) == IsPrefixOf(root, Components(path))

InDotGit(path) ==
    LET first(cs) == cs # <<>> /\ cs[1] = Normal(<<".", "g", "i", "t">>)
    IN  first(Components(path))

\* the walk of build_git_copy_tasks: regular files below source_root, outside
\* .git, in the order the directories list them
RECURSIVE git_walk(_, _, _, _, _)
git_walk(root, base, out, ents, acc) ==
    IF ents = <<>> THEN TasksOk(acc)
    ELSE LET e == Head(ents)
             next(r) == IF ~r.ok THEN r
                        ELSE git_walk(root, base, out, Tail(ents), r.tasks)
         IN  IF e.type = "File" /\ Under(root, e.path) /\ ~InDotGit(e.path)
             THEN next(PushTask(base, out, LocalContent(e.path), acc))
             ELSE git_walk(root, base, out, Tail(ents), acc)

build_git_file_task(req, ents, base, out) ==
    IF req.path = <<>> THEN TasksErr("NoPath")
    ELSE IF ~\E i \in 1..Len(ents) : ents[i].path = req.path
         THEN TasksErr("NotInCheckout")
    ELSE IF \E i \in 1..Len(ents) : ents[i].path = req.path /\ ents[i].type = "Dir"
         THEN TasksErr("NotAFile")
    ELSE PushTask(base, out, LocalContent(req.path), <<>>)

build_git_copy_tasks(req, ents, base, out) ==
    IF req.kind = "Blob" THEN build_git_file_task(req, ents, base, out)
    ELSE IF req.path # <<>>
            /\ ~\E i \in 1..Len(ents) : Under(Components(req.path), ents[i].path)
         THEN TasksErr("NotFound")
    ELSE IF \E i \in 1..Len(ents) : ents[i].path = req.path /\ ents[i].type = "File"
         THEN TasksErr("IoError")          \* read_dir of a regular file
    ELSE git_walk(Components(req.path), base, out, ents, <<>>)

\* the layout both local pipelines compute, and the task list
LocalLayout ==
    LET place(lay) ==
            /\ base_path' = lay.base
            /\ output_dir' = IF output.some THEN output.v ELSE lay.default_output
    IN  place(compute_base_and_default_output(request, request.kind = "Blob", None))

LocalPlan(r) ==
    IF ~r.ok THEN PipeFail(<<E(r.err)>>) /\ UNCHANGED <<tasks, dl>>
    ELSE IF r.tasks = <<>> THEN PipeFail(<<E("NoMatch")>>) /\ UNCHANGED <<tasks, dl>>
    ELSE /\ tasks' = r.tasks
         /\ dl' = [i \in 1..Len(r.tasks) |-> "idle"]
         /\ ppc' = "collected"
         /\ perr' = perr

\* ensure_git_available, clone or fetch, sparse-checkout, checkout (lines 45-210)
GitPrepare ==
    /\ pipeline = "Git"
    /\ ppc = "start"
    /\ IF ~git_avail
       THEN PipeFail(<<E("ToolUnavailable")>>) /\ UNCHANGED <<base_path, output_dir>>
       ELSE \/ PipeFail(<<E("failed to clone"), E("GitError")>>)
               /\ UNCHANGED <<base_path, output_dir>>
            \/ ppc' = "listed" /\ perr' = perr /\ LocalLayout
    /\ UNCHANGED <<httpVars, inVars, selVars, pipeline, tasks, fs, fs0, dl, next_task,
                   gate_log>>

\* build_git_copy_tasks and the empty check (lines 217-227)
GitPlan ==
    /\ pipeline = "Git"
    /\ ppc = "listed"
    /\ LocalPlan(build_git_copy_tasks(request, entries, base_path, output_dir))
    /\ next_task' = 1
    /\ UNCHANGED <<httpVars, inVars, selVars, pipeline, base_path, output_dir, fs, fs0,
                   gate_log>>

\* one iteration of a copy loop: create_dir_all, then the target is created
\* or truncated and filled; a failure leaves it absent, untouched or partial
CopyNext(p) ==
    /\ pipeline = p
    /\ ppc = "gated"
    /\ next_task <= Len(tasks)
    /\ \E outcome \in {"ok", "create_failed", "copy_failed"} :
          CASE outcome = "ok" ->
                 /\ fs' = Put(fs, tasks[next_task].target_path, "new")
                 /\ dl' = [dl EXCEPT ![next_task] = "done"]
                 /\ next_task' = next_task + 1
                 /\ UNCHANGED <<ppc, perr>>
            [] outcome = "create_failed" ->
                 /\ PipeFail(<<E("failed to create file"), E("IoError")>>)
                 /\ UNCHANGED <<fs, dl, next_task>>
            [] outcome = "copy_failed" ->
                 /\ PipeFail(<<E("failed to copy"), E("IoError")>>)
                 /\ fs' = Put(fs, tasks[next_task].target_path, "partial")
                 /\ UNCHANGED <<dl, next_task>>
    /\ UNCHANGED <<httpVars, inVars, selVars, pipeline, base_path, output_dir, tasks,
                   fs0, gate_log>>

\* the loop `for task in tasks` with fs::copy (lines 267-282)
GitCopy == CopyNext("Git")

NextGit ==
    \/ GitPrepare
    \/ GitPlan
    \/ OverwriteGate("Git")
    \/ GitCopy
    \/ PipeFinish("Git")

----------------------------------------------------------------------------
(* git/sparse.rs: the cached clone and its sparse-checkout configuration *)

NoGitRepo == [cloned |-> FALSE, sparse |-> None]

NoGitCall == [req |-> [path |-> <<>>, has_trailing_slash |-> FALSE, kind |-> "Tree"],
              before |-> NoGitRepo]

\* whether git keeps the file at `path` in the work tree: all files without
\* a configuration; in cone mode the files below the target and those directly
\* in the root and in the directories above the target; otherwise the files
\* the pattern names: the target, what is below it, and for a pattern without
\* a slash every file of that name
SparseKeeps(sparse, path) ==
    LET pc == Components(path)
        keeps(tc, cone) ==
            IF cone THEN IsPrefixOf(tc, pc) \/ IsPrefixOf(Front(pc), tc)
            ELSE IsPrefixOf(tc, pc) \/ (Len(tc) = 1 /\ Last(pc) = tc[1])
    IN  IF ~sparse.some THEN TRUE
        ELSE keeps(Components(sparse.v.target), sparse.v.cone)

\* the work tree after `git checkout`: the files kept, and the directories
\* that hold one of them
WorkTree(branch, sparse) ==
    LET kept(e) == e.type = "File" /\ SparseKeeps(sparse, e.path)
        holds(d) == \E i \in 1..Len(branch) :
                       kept(branch[i]) /\ Under(Components(d.path), branch[i].path)
    IN  SelectSeq(branch, LAMBDA e : kept(e) \/ (e.type = "Dir" /\ holds(e)))

\* let sparse_checkout_needed = !request.path.is_empty() || kind == Blob
sparse_checkout_needed(req) == req.path # <<>> \/ req.kind = "Blob"

\* what `sparse-checkout init` and `set` leave in the repository
SparseAfter(repo, req, needed) ==
    IF needed THEN [repo EXCEPT !.sparse = Some([cone |-> req.kind # "Blob", target |-> req.path])]
    ELSE repo

GitcFrame == UNCHANGED <<restGitcVars, selVars, pipeVars, httpVars>>

\* the cached clone is looked for: fetched when it is there, cloned without a
\* checkout when it is not (lines 92-162); either may fail
GitRepoPrepare(req) ==
    /\ gpc = "idle"
    /\ gcall' = [req |-> req, before |-> git_repo]
    /\ \/ /\ git_repo' = [git_repo EXCEPT !.cloned = TRUE]
          /\ gpc' = "prepared"
          /\ gdone' = gdone
       \/ /\ gdone' = Append(gdone, [req |-> req, before |-> git_repo, ok |-> FALSE,
                                     copied |-> {}])
          /\ UNCHANGED <<git_repo, gpc>>
    /\ GitcFrame

GitRunFailed ==
    /\ gdone' = Append(gdone, [req |-> gcall.req, before |-> gcall.before, ok |-> FALSE,
                               copied |-> {}])
    /\ gpc' = "idle"
    /\ gcall' = NoGitCall
    /\ UNCHANGED git_repo

\* sparse-checkout init and set, when the request names a path (lines 166-189);
\* a git command that fails ends the run and leaves the configuration as it was
GitSparseCheckout ==
    /\ gpc = "prepared"
    /\ \/ /\ git_repo' = SparseAfter(git_repo, gcall.req, sparse_checkout_needed(gcall.req))
          /\ gpc' = "configured"
          /\ UNCHANGED <<gcall, gdone>>
       \/ sparse_checkout_needed(gcall.req) /\ GitRunFailed
    /\ GitcFrame

\* git checkout, the layout and build_git_copy_tasks over the work tree
\* (lines 198-220)
GitCheckoutAndPlan(branch) ==
    /\ gpc = "configured"
    /\ gpc' = "idle"
    /\ gcall' = NoGitCall
    /\ UNCHANGED git_repo
    /\ GitcFrame
    /\ LET req == gcall.req
           lay == compute_base_and_default_output(req, req.kind = "Blob", None)
           plan(r) ==
               gdone' = Append(gdone,
                               [req |-> req, before |-> gcall.before,
                                ok |-> r.ok /\ r.tasks # <<>>,
                                copied |-> {r.tasks[i].item.path : i \in 1..Len(r.tasks)}])
       IN  plan(build_git_copy_tasks(req, WorkTree(branch, git_repo.sparse), lay.base,
                                     lay.default_output))

\* git checkout fails (lines 200-207)
GitCheckoutFails ==
    /\ gpc = "configured"
    /\ GitRunFailed
    /\ GitcFrame

----------------------------------------------------------------------------
(* zip/archive.rs: the archive pipeline, download_via_zip_impl *)

\* "{repo}-{branch}/", the root directory of a forge archive
zip_prefix == <<"r", "/">>

\* the name the archive gives to an entry of the branch
ZipName(e) == zip_prefix \o e.path \o (IF e.type = "Dir" THEN <<"/">> ELSE <<>>)

target_path_in_zip(req) == zip_prefix \o req.path

\* `matches` of the collecting loop of extract_from_zip
ZipMatches(req, e) ==
    IF req.kind = "Blob" THEN ZipName(e) = target_path_in_zip(req)
    ELSE StartsWith(ZipName(e), target_path_in_zip(req)) /\ e.type # "Dir"

\* the collecting loop of extract_from_zip (lines 246-296)
RECURSIVE zip_collect(_, _, _, _, _)
zip_collect(req, base, out, ents, acc) ==
    IF ents = <<>> THEN TasksOk(acc)
    ELSE LET e == Head(ents)
             next(r) == IF ~r.ok THEN r
                        ELSE zip_collect(req, base, out, Tail(ents), r.tasks)
         IN  IF ZipMatches(req, e)
             THEN next(PushTask(base, out, LocalContent(e.path), acc))
             ELSE zip_collect(req, base, out, Tail(ents), acc)

\* the archive is downloaded, or taken from the repo cache (lines 88-111)
ZipFetch ==
    /\ pipeline = "Zip"
    /\ ppc = "start"
    /\ \/ PipeFail(<<E("failed to download zip archive"), E("RemoteError")>>)
          /\ UNCHANGED <<base_path, output_dir>>
       \/ ppc' = "listed" /\ perr' = perr /\ LocalLayout
    /\ UNCHANGED <<httpVars, inVars, selVars, pipeline, tasks, fs, fs0, dl, next_task,
                   gate_log>>

\* extract_from_zip up to the empty check (lines 221-309)
ZipPlan ==
    /\ pipeline = "Zip"
    /\ ppc = "listed"
    /\ LocalPlan(zip_collect(request, base_path, output_dir, entries, <<>>))
    /\ next_task' = 1
    /\ UNCHANGED <<httpVars, inVars, selVars, pipeline, base_path, output_dir, fs, fs0,
                   gate_log>>

\* the extraction loop with extract_file_from_zip (lines 340-365)
ZipExtract == CopyNext("Zip")

NextZip ==
    \/ ZipFetch
    \/ ZipPlan
    \/ OverwriteGate("Zip")
    \/ ZipExtract
    \/ PipeFinish("Zip")

----------------------------------------------------------------------------
(* download/manager.rs: the strategy selector, download_github_path *)

is_whole_repo(req) == req.path = <<>> \/ req.path = <<"/">>

\* an order that takes the archive first whenever git is missing
AutoOrderZipFirst(git, req) ==
    IF git THEN <<"Git", "Zip", "Api">>
    ELSE <<"Zip", "Api">>

\* the order the nested matches of the Auto arm attempt the strategies in
AutoOrder(git, req) ==
    IF git THEN <<"Git", "Zip", "Api">>
    ELSE IF is_whole_repo(req) THEN <<"Zip", "Api">>
    ELSE <<"Api", "Zip">>

StrategyOrder == IF strategy = "Auto" THEN AutoOrder(git_avail, request)
                 ELSE <<strategy>>

\* a final error built on the last failure instead of the first
AutoFinalErrorOfLast(order, es) ==
    context(es[Len(es)], [msg |-> "fallbacks also failed",
                          mentions |-> <<Display(es[1])>>])

\* the error the Auto arm returns when its last strategy failed too: the first
\* strategy's error, with the later failures named in the added context
AutoFinalError(order, es) ==
    IF Len(order) = 3
    THEN context(es[1], [msg |-> "zip fallback failed; REST API fallback also failed",
                         mentions |-> <<Display(es[2]), Display(es[3])>>])
    ELSE IF order[1] = "Zip"
    THEN context(es[1], [msg |-> "REST API fallback also failed",
                         mentions |-> <<Display(es[2])>>])
    ELSE context(es[1], [msg |-> "zip fallback also failed",
                         mentions |-> <<Display(es[2])>>])

NoResult == [ok |-> FALSE, err |-> <<>>]

StartPipeline(s) ==
    /\ pipeline' = s
    /\ ppc' = "start"
    /\ base_path' = <<>>
    /\ output_dir' = <<>>
    /\ tasks' = <<>>
    /\ perr' = <<>>
    /\ dl' = <<>>
    /\ next_task' = 1
    /\ fs0' = fs
    /\ attempts' = Append(attempts, s)

\* the first strategy is attempted
SelectStrategy ==
    /\ spc = "idle"
    /\ spc' = "running"
    /\ StartPipeline(StrategyOrder[1])
    /\ UNCHANGED <<httpVars, inVars, errs, result, fs, gate_log>>

\* Err(e) arm of a match in Auto mode: the next strategy is attempted
Fallback ==
    /\ spc = "running"
    /\ ppc = "failed"
    /\ Len(attempts) < Len(StrategyOrder)
    /\ errs' = Append(errs, perr)
    /\ StartPipeline(StrategyOrder[Len(attempts) + 1])
    /\ UNCHANGED <<httpVars, inVars, spc, result, fs, gate_log>>

\* download_github_path returns
Return ==
    /\ spc = "running"
    /\ \/ /\ ppc = "done"
          /\ result' = [ok |-> TRUE, err |-> <<>>]
       \/ /\ ppc = "failed"
          /\ Len(attempts) = Len(StrategyOrder)
          /\ result' = [ok |-> FALSE,
                        err |-> IF strategy = "Auto"
                                THEN AutoFinalError(StrategyOrder, Append(errs, perr))
                                ELSE perr]
    /\ spc' = "returned"
    /\ UNCHANGED <<httpVars, inVars, attempts, errs, pipeVars>>

----------------------------------------------------------------------------
(* rate_limit.rs: the rate-limit tracker and the backoff computation *)

\* a response: status, the headers the code reads (each None or Some(n) /
\* Some(text)), the body, and whether the body can be read to its end
Response(status, retry_after, limit, remaining, used, reset, etag, last_modified, body, readable) ==
    [status |-> status, retry_after |-> retry_after, limit |-> limit,
     remaining |-> remaining, used |-> used, reset |-> reset, etag |-> etag,
     last_modified |-> last_modified, body |-> body, readable |-> readable]

\* RateLimitSnapshot::from_headers
from_headers(h) ==
    IF ~h.limit.some /\ ~h.remaining.some /\ ~h.used.some /\ ~h.reset.some
    THEN None
    ELSE Some([limit |-> h.limit, remaining |-> h.remaining, used |-> h.used,
               reset_epoch |-> h.reset])

Min(a, b) == IF a < b THEN a ELSE b
Max(a, b) == IF a > b THEN a ELSE b

\* ((limit as f64) * 0.1).ceil().max(50).min(limit)
WarnThreshold(limit) == Min(Max((limit + 9) \div 10, 50), limit)

NoTracker == [last_snapshot |-> None, lowest_remaining |-> None,
              last_warned_remaining |-> None]

\* RateLimitTracker::record_headers: the state it leaves
record_headers(state, h) ==
    LET update(snap) ==
            IF ~snap.some THEN state
            ELSE [last_snapshot |-> snap,
                  lowest_remaining |->
                      IF ~snap.v.remaining.some THEN state.lowest_remaining
                      ELSE IF ~state.lowest_remaining.some THEN snap.v.remaining
                      ELSE Some(Min(state.lowest_remaining.v, snap.v.remaining.v)),
                  last_warned_remaining |->
                      IF /\ snap.v.limit.some
                         /\ snap.v.remaining.some
                         /\ snap.v.remaining.v <= WarnThreshold(snap.v.limit.v)
                         /\ (state.last_warned_remaining.some =>
                                snap.v.remaining.v < state.last_warned_remaining.v)
                      THEN snap.v.remaining
                      ELSE state.last_warned_remaining]
    IN  update(from_headers(h))

\* the tail of backoff_duration: Retry-After, else the time until the reset
RetryAfterOrReset(h, t) ==
    IF h.retry_after.some THEN h.retry_after
    ELSE IF h.reset.some /\ h.reset.v > t THEN Some(h.reset.v - t + 1)
    ELSE None

\* backoff_duration reaches `UNIX_EPOCH + Duration::from_secs(reset_epoch)`,
\* and the sum is past the last SystemTime: the addition panics
backoff_panics(h) ==
    /\ \/ h.status = 429
       \/ h.status = 403 /\ h.remaining.some /\ h.remaining.v = 0
    /\ ~h.retry_after.some
    /\ h.reset.some
    /\ h.reset.v > TimeMax

\* backoff_duration without the look at x-ratelimit-remaining
backoff_duration_any_forbidden(h, t) ==
    IF h.status \in {403, 429} THEN RetryAfterOrReset(h, t) ELSE None

\* RateLimitTracker::backoff_duration, at time t, when it returns
backoff_duration(h, t) ==
    IF h.status = 429 /\ h.retry_after.some THEN h.retry_after
    ELSE IF h.status = 403
         THEN IF h.remaining.some /\ h.remaining.v = 0
              THEN RetryAfterOrReset(h, t)
              ELSE None
    ELSE IF h.status # 429 THEN None
    ELSE RetryAfterOrReset(h, t)

\* no function has been called on its own
NoApplication == [fn |-> "none", arg |-> <<>>, at |-> 0, out |-> <<>>]

\* how a call ended: it returned a value, or the thread panicked
Returned(v) == [panic |-> FALSE, value |-> v]
Panicked == [panic |-> TRUE, value |-> <<>>]

\* a caller computes backoff_duration for the status and headers of h; the
\* function reads the clock when it gets to the reset time
CallBackoffDuration(h) ==
    /\ applied' = [fn |-> "backoff_duration", arg |-> h, at |-> now,
                   out |-> IF backoff_panics(h) THEN Panicked
                           ELSE Returned(backoff_duration(h, now))]
    /\ UNCHANGED <<cmdVars, unitVars, fileVars, listVars, diskVars, selVars, pipeVars, httpVars>>

\* download/validation.rs: validate_download_strategy
validate_download_strategy(s, git_available, request_kind) ==
    IF s = "Auto"
    THEN IF git_available THEN "Git"
         ELSE IF request_kind = "Tree" THEN "Zip"
         ELSE "Api"
    ELSE s

\* validate_download_strategy is computed for the command line and the request
CallValidateStrategy ==
    /\ spc = "idle"
    /\ applied = NoApplication
    /\ applied' = [fn |-> "validate_download_strategy",
                   arg |-> <<strategy, git_avail, request.kind>>, at |-> 0,
                   out |-> Returned(validate_download_strategy(strategy, git_avail,
                                                               request.kind))]
    /\ UNCHANGED <<cmdVars, unitVars, fileVars, listVars, diskVars, selVars, pipeVars, httpVars>>

----------------------------------------------------------------------------
(* download/tasks.rs: the listing fan-out of collect_download_tasks_inner *)

\* the directories of the tree that is enumerated: "" is the directory of the
\* request, whose listing the caller passes in
Dirs == {"", "d1", "d2", "d1/a", "d1/b", "d2/c", "d1/a/e"}

\* the sub-directories the listing of a directory names, in listing order
SubDirs(d) ==
    CASE d = ""     -> <<"d1", "d2">>
      [] d = "d1"   -> <<"d1/a", "d1/b">>
      [] d = "d2"   -> <<"d2/c">>
      [] d = "d1/a" -> <<"d1/a/e">>
      [] OTHER      -> <<>>

ParentDirOf(d) == CHOOSE p \in Dirs : \E i \in 1..Len(SubDirs(p)) : SubDirs(p)[i] = d

IndexIn(d) == CHOOSE i \in 1..Len(SubDirs(ParentDirOf(d))) : SubDirs(ParentDirOf(d))[i] = d

\* the futures of one buffer_unordered that were polled and have not completed
ActiveIn(p) == {i \in 1..Len(SubDirs(p)) : ls[SubDirs(p)[i]] \in {"fetching", "expanding"}}

\* listing requests in flight
Fetching == {d \in Dirs : ls[d] = "fetching"}

\* listing_parallel.max(1), handed down unchanged to every level
listing_parallel == IF parallel > 1 THEN parallel ELSE 1

\* buffer_unordered(listing_parallel) of the call for the parent of d polls
\* the future of d: fetch_github_contents sends the listing request
ListFetch(d) ==
    /\ lpc = "running"
    /\ d # ""
    /\ ls[d] = "waiting"
    /\ ls[ParentDirOf(d)] = "expanding"
    /\ \A i \in 1..(IndexIn(d) - 1) : ls[SubDirs(ParentDirOf(d))[i]] # "waiting"
    /\ Cardinality(ActiveIn(ParentDirOf(d))) < listing_parallel
    /\ ls' = [ls EXCEPT ![d] = "fetching"]
    /\ UNCHANGED <<lpc, cmdVars, unitVars, applied, fileVars, diskVars, selVars, pipeVars, httpVars>>

\* the listing of d returns and collect_download_tasks_inner is entered for
\* it: without sub-directories it returns its files at once; or the request
\* fails, and try_collect ends the enumeration with that error
ListRespond(d) ==
    /\ lpc = "running"
    /\ ls[d] = "fetching"
    /\ \/ /\ ls' = [ls EXCEPT ![d] = IF SubDirs(d) = <<>> THEN "done" ELSE "expanding"]
          /\ UNCHANGED lpc
       \/ /\ lpc' = "failed"
          /\ UNCHANGED ls
    /\ UNCHANGED <<cmdVars, unitVars, applied, fileVars, diskVars, selVars, pipeVars, httpVars>>

\* try_collect of the call for d has every sub-result: the call returns
ListJoin(d) ==
    /\ lpc = "running"
    /\ ls[d] = "expanding"
    /\ \A i \in 1..Len(SubDirs(d)) : ls[SubDirs(d)[i]] = "done"
    /\ ls' = [ls EXCEPT ![d] = "done"]
    /\ lpc' = IF d = "" THEN "done" ELSE lpc
    /\ UNCHANGED <<cmdVars, unitVars, applied, fileVars, diskVars, selVars, pipeVars, httpVars>>

----------------------------------------------------------------------------
(* cache.rs: the response cache *)

\* sha256 of the url in hex: distinct urls get distinct keys
cache_key(url) == <<"sha256", url>>

Urls == {"u1", "u2"}
Keys == {cache_key(u) : u \in Urls}

\* a file of the cache directory; the fields are those of CachedResponse when
\* the file parses, and blank otherwise
File(kind, url, body, etag, last_modified, timestamp) ==
    [kind |-> kind, url |-> url, body |-> body, etag |-> etag,
     last_modified |-> last_modified, timestamp |-> timestamp]

Missing    == File("missing",    "", "", None, None, 0)
Unreadable == File("unreadable", "", "", None, None, 0)
Corrupt    == File("corrupt",    "", "", None, None, 0)

CachedResponse(url, body, etag, last_modified, timestamp) ==
    File("entry", url, body, etag, last_modified, timestamp)

IsEntry(file) == file.kind = "entry"

\* u64 subtraction: overflow-checked builds panic, the others wrap
U64Sub(a, b, checked) ==
    IF b > a
    THEN IF checked THEN [panic |-> TRUE, v |-> 0]
         ELSE [panic |-> FALSE, v |-> a - b + (U64Max + 1)]
    ELSE [panic |-> FALSE, v |-> a - b]

\* what load_cached_response does: panics, or returns Err, Ok(None), Ok(Some)
LoadPanic   == [panic |-> TRUE,  ok |-> FALSE, some |-> FALSE, v |-> Missing]
LoadErr     == [panic |-> FALSE, ok |-> FALSE, some |-> FALSE, v |-> Missing]
LoadNone    == [panic |-> FALSE, ok |-> TRUE,  some |-> FALSE, v |-> Missing]
LoadSome(c) == [panic |-> FALSE, ok |-> TRUE,  some |-> TRUE,  v |-> c]

\* a loader that fails the read of a file it cannot parse
load_cached_response_strict(files, url, ttl_secs, t, checked) ==
    LET read(file) ==
            IF file.kind = "missing" THEN LoadNone
            ELSE IF file.kind \in {"unreadable", "corrupt"} THEN LoadErr
            ELSE IF t - file.timestamp > ttl_secs THEN LoadErr
            ELSE LoadSome(file)
    IN  read(files[cache_key(url)])

\* load_cached_response at time t
load_cached_response(files, url, ttl_secs, t, checked) ==
    LET decide(cached, age) ==
            IF age.panic THEN LoadPanic
            ELSE IF age.v > ttl_secs THEN LoadNone
            ELSE LoadSome(cached)
        read(file) ==
            IF file.kind = "missing" THEN LoadNone
            ELSE IF file.kind = "unreadable" THEN LoadErr
            ELSE IF file.kind = "corrupt" THEN LoadNone
            ELSE decide(file, U64Sub(t, file.timestamp, checked))
    IN  read(files[cache_key(url)])

\* http/headers.rs: is_cache_fresh, the age taken with saturating_sub
is_cache_fresh(cached_at, current_time, ttl) ==
    LET age == IF current_time >= cached_at THEN current_time - cached_at ELSE 0
    IN  age <= ttl

\* the test `now - cached.timestamp > ttl_secs` of load_cached_response: the
\* entry is used when it is false
load_is_fresh(cached_at, t, ttl, checked) ==
    LET decide(age) == IF age.panic THEN Panicked ELSE Returned(~(age.v > ttl))
    IN  decide(U64Sub(t, cached_at, checked))

\* both are computed for an entry stored at cached_at, at time t
CallFreshness(cached_at, t, ttl, checked) ==
    /\ applied' = [fn |-> "freshness", arg |-> <<cached_at, t, ttl>>, at |-> t,
                   out |-> [load |-> load_is_fresh(cached_at, t, ttl, checked),
                            pure |-> is_cache_fresh(cached_at, t, ttl)]]
    /\ UNCHANGED <<cmdVars, unitVars, fileVars, listVars, diskVars, selVars, pipeVars, httpVars>>

\* save_cached_response: the files it leaves, by the step that fails if any
save_cached_response(files, cached, outcome) ==
    LET key == cache_key(cached.url) IN
    CASE outcome = "ok" -> [files EXCEPT ![key] = cached]
      [] outcome = "rename_failed" ->
            [files EXCEPT ![key] = Missing]
      [] OTHER -> files          \* create, write, flush or remove failed

SaveOutcomes(files, cached) ==
    {"ok", "create_failed", "rename_failed"}
    \cup (IF files[cache_key(cached.url)].kind # "missing" THEN {"remove_failed"} ELSE {})

----------------------------------------------------------------------------
(* cache.rs: save_cached_response and load_cached_response, step by step *)

Inodes == 1..3

\* a file that holds the first bytes of the JSON of an entry
PartialFile == File("partial", "", "", None, None, 0)

EmptyDisk == [path |-> 0, tmp |-> 0, data |-> [i \in Inodes |-> Missing]]

NoSaver == [pc |-> "idle", entry |-> Missing]

NoLoader == [pc |-> "idle", ino |-> 0, observed |-> Missing, out |-> LoadNone]

\* a save that writes the entry to <key>.json itself
SaveFileInPlace == "path"

\* path.with_extension("json.tmp"): the file the entry is written to
SaveFile == "tmp"

\* File::create: a new empty file, or the file of that name truncated
Create(d, name) ==
    IF d[name] # 0
    THEN [d EXCEPT !.data[d[name]] = PartialFile]
    ELSE [d EXCEPT ![name] = 3, !.data[3] = PartialFile]

\* a step of save_cached_response returns its error
SaveFails ==
    /\ saver' = [saver EXCEPT !.pc = "failed"]
    /\ UNCHANGED disk

\* save_cached_response, File::create(&tmp_path)
SaveCreate(cached) ==
    /\ saver.pc = "idle"
    /\ \/ /\ disk' = Create(disk, SaveFile)
          /\ saver' = [pc |-> "created", entry |-> cached]
       \/ /\ disk' = disk
          /\ saver' = [pc |-> "failed", entry |-> cached]
    /\ UNCHANGED <<loader, cmdVars, unitVars, applied, fileVars, listVars, selVars, pipeVars, httpVars>>

\* serde_json::to_writer and flush
SaveWrite ==
    /\ saver.pc = "created"
    /\ \/ /\ disk' = [disk EXCEPT !.data[disk[SaveFile]] = saver.entry]
          /\ saver' = [saver EXCEPT !.pc = "written"]
       \/ SaveFails
    /\ UNCHANGED <<loader, cmdVars, unitVars, applied, fileVars, listVars, selVars, pipeVars, httpVars>>

\* if path.exists() { fs::remove_file(&path) }
SaveUnlink ==
    /\ saver.pc = "written"
    /\ IF disk.path # 0
       THEN \/ /\ disk' = [disk EXCEPT !.path = 0]
               /\ saver' = [saver EXCEPT !.pc = "unlinked"]
            \/ SaveFails
       ELSE /\ saver' = [saver EXCEPT !.pc = "unlinked"]
            /\ UNCHANGED disk
    /\ UNCHANGED <<loader, cmdVars, unitVars, applied, fileVars, listVars, selVars, pipeVars, httpVars>>

\* fs::rename(&tmp_path, &path)
SaveRename ==
    /\ saver.pc = "unlinked"
    /\ \/ /\ disk' = [disk EXCEPT !.path = disk.tmp, !.tmp = 0]
          /\ saver' = [saver EXCEPT !.pc = "saved"]
       \/ SaveFails
    /\ UNCHANGED <<loader, cmdVars, unitVars, applied, fileVars, listVars, selVars, pipeVars, httpVars>>

\* load_cached_response, File::open(&path): NotFound is Ok(None), another
\* error is Err
LoadOpen ==
    /\ loader.pc = "idle"
    /\ \/ /\ disk.path = 0
          /\ loader' = [loader EXCEPT !.pc = "done", !.out = LoadNone]
       \/ /\ disk.path # 0
          /\ loader' = [loader EXCEPT !.pc = "opened", !.ino = disk.path]
       \/ loader' = [loader EXCEPT !.pc = "done", !.out = LoadErr]
    /\ UNCHANGED <<disk, saver, cmdVars, unitVars, applied, fileVars, listVars, selVars, pipeVars, httpVars>>

\* serde_json::from_reader on the open file, then the age check
LoadRead ==
    /\ loader.pc = "opened"
    /\ \E checked \in BOOLEAN :
          LET parse(content) ==
                  loader' = [loader EXCEPT !.pc = "done", !.observed = content,
                      !.out = load_cached_response(
                                  [k \in Keys |-> IF content.kind = "partial"
                                                  THEN Corrupt ELSE content],
                                  "u1", TtlSecs, now, checked)]
          IN  parse(disk.data[loader.ino])
    /\ UNCHANGED <<disk, saver, cmdVars, unitVars, applied, fileVars, listVars, selVars, pipeVars, httpVars>>

\* load_cached_response(..).ok().flatten(): what the HTTP wrapper goes on with
Looked(out) == IF out.ok /\ out.some THEN Some(out.v) ELSE None

----------------------------------------------------------------------------
(* github/api.rs: parse_github_url *)

TreeWord == <<"t", "r", "e", "e">>
BlobWord == <<"b", "l", "o", "b">>

\* scheme and host of the URLs of the model
UrlBase == <<"h", ":", "/", "/", "g">>

\* the part of s before the first '?' or '#'
RECURSIVE UpToQuery(_)
UpToQuery(s) ==
    IF s = <<>> \/ Head(s) \in {"?", "#"} THEN <<>>
    ELSE <<Head(s)>> \o UpToQuery(Tail(s))

\* the URL parser on the segments of a path: ".." removes the segment before
\* it, "." is dropped, and either of them at the end leaves an empty segment
RECURSIVE DotSegments(_, _)
DotSegments(segs, acc) ==
    IF segs = <<>> THEN acc
    ELSE LET seg == Head(segs)
             last == Tail(segs) = <<>>
         IN  IF seg = <<".", ".">>
             THEN DotSegments(Tail(segs),
                      (IF acc = <<>> THEN acc ELSE Front(acc))
                          \o (IF last THEN << <<>> >> ELSE <<>>))
             ELSE IF seg = <<".">>
             THEN DotSegments(Tail(segs), acc \o (IF last THEN << <<>> >> ELSE <<>>))
             ELSE DotSegments(Tail(segs), Append(acc, seg))

\* url::Url::parse(raw_url) and path_segments(): a URL without scheme does
\* not parse; the path of a URL with a host is "/" when none is written
path_segments(raw) ==
    IF ~StartsWith(raw, UrlBase) THEN None
    ELSE LET path == UpToQuery(SubSeq(raw, Len(UrlBase) + 1, Len(raw)))
         IN  IF path = <<>> THEN Some(<< <<>> >>)
             ELSE Some(DotSegments(Segs(Tail(path), <<>>, <<>>), <<>>))

\* [T]::join("/")
RECURSIVE JoinSlash(_)
JoinSlash(segs) ==
    IF segs = <<>> THEN <<>>
    ELSE IF Len(segs) = 1 THEN Head(segs)
    ELSE Head(segs) \o <<"/">> \o JoinSlash(Tail(segs))

\* a path that keeps the slashes around it
KeepSlashes(s) == s

\* raw_path.trim_matches('/')
TrimMatchesSlash(s) == TrimSlashes(s)

parse_github_url(raw) ==
    LET parsed == path_segments(raw)
        has_trailing_slash == raw # <<>> /\ Last(raw) = "/"
        info(segments) ==
            IF Len(segments) < 5 \/ (segments[3] # TreeWord /\ segments[3] # BlobWord)
            THEN Err("URL must include /tree/ or /blob/ with a branch and path component")
            ELSE LET path == TrimMatchesSlash(JoinSlash(SubSeq(segments, 5, Len(segments))))
                 IN  [ok |-> TRUE,
                      info |-> [owner |-> segments[1], repo |-> segments[2],
                                branch |-> segments[4], path |-> path,
                                has_trailing_slash |-> has_trailing_slash,
                                kind |-> IF segments[3] = TreeWord THEN "Tree"
                                         ELSE IF path = <<>> THEN "Tree"
                                         ELSE "Blob"]]
    IN  IF ~parsed.some THEN Err("invalid GitHub URL") ELSE info(parsed.v)

\* main parses one URL of the command line
CallParseGithubUrl(raw) ==
    /\ applied = NoApplication
    /\ applied' = [fn |-> "parse_github_url", arg |-> raw, at |-> now,
                   out |-> Returned(parse_github_url(raw))]
    /\ UNCHANGED <<cmdVars, unitVars, fileVars, listVars, diskVars, selVars, pipeVars, httpVars>>

\* the API pipeline plans the layout for the listing of the request
CallDeterminePaths(req, cs) ==
    /\ applied = NoApplication
    /\ applied' = [fn |-> "determine_paths", arg |-> [request |-> req, contents |-> cs],
                   at |-> now, out |-> Returned(determine_paths(req, cs))]
    /\ UNCHANGED <<cmdVars, unitVars, fileVars, listVars, diskVars, selVars, pipeVars, httpVars>>

----------------------------------------------------------------------------
(* rate_limit.rs: calls of record_headers on one tracker, side by side *)

Callers == 1..2

MaxCalls == 3

\* the four rate-limit headers of a response
Headers(limit, remaining, used, reset) ==
    [limit |-> limit, remaining |-> remaining, used |-> used, reset |-> reset]

NoCaller == [pc |-> "idle", headers |-> Headers(None, None, None, None),
             snapshot |-> None, seen |-> NoTracker, ret |-> None, calls |-> 0]

\* a state that calls may read and write without waiting for each other
MutexIgnored == TRUE

\* tokio::sync::Mutex: lock() completes when no other call holds the state
MutexFree == mutex = 0

\* a warn_low that is raised again when the remaining count repeats
record_headers_flags_repeat(state, snap) ==
    [log_change |-> IF state.last_snapshot.some THEN state.last_snapshot.v # snap
                    ELSE TRUE,
     warn_low |->
        /\ snap.limit.some
        /\ snap.remaining.some
        /\ snap.remaining.v <= WarnThreshold(snap.limit.v)
        /\ (state.last_warned_remaining.some =>
               snap.remaining.v <= state.last_warned_remaining.v)]

\* what record_headers returns with the snapshot: log_change and warn_low
record_headers_flags(state, snap) ==
    [log_change |-> IF state.last_snapshot.some THEN state.last_snapshot.v # snap
                    ELSE TRUE,
     warn_low |->
        IF snap.limit.some /\ snap.remaining.some
        THEN IF snap.remaining.v <= WarnThreshold(snap.limit.v)
             THEN IF state.last_warned_remaining.some
                  THEN snap.remaining.v < state.last_warned_remaining.v
                  ELSE TRUE
             ELSE FALSE
        ELSE FALSE]

TrackFrame ==
    UNCHANGED <<restTrackVars, selVars, pipeVars, now, cache, server, hpc, call, attempt,
                sent, slept, sres, hres, last_saved, received>>

\* record_headers, RateLimitSnapshot::from_headers(headers)?: without any of
\* the four headers the call returns None before it asks for the state
TrackCall(c, h) ==
    /\ callers[c].pc \in {"idle", "returned"}
    /\ callers[1].calls + callers[2].calls < MaxCalls
    /\ callers' = [callers EXCEPT ![c] =
                      [pc |-> IF from_headers(h).some THEN "waiting" ELSE "returned",
                       headers |-> h, snapshot |-> from_headers(h),
                       seen |-> NoTracker, ret |-> None, calls |-> @.calls + 1]]
    /\ UNCHANGED <<mutex, recorded, tracker>>
    /\ TrackFrame

\* self.state.lock().await: the call holds the state from here on
TrackLock(c) ==
    /\ callers[c].pc = "waiting"
    /\ MutexFree
    /\ mutex' = c
    /\ callers' = [callers EXCEPT ![c].pc = "locked", ![c].seen = tracker]
    /\ recorded' = Append(recorded, [snapshot |-> callers[c].snapshot.v, warn_low |-> FALSE])
    /\ UNCHANGED tracker
    /\ TrackFrame

\* the updates of last_snapshot, lowest_remaining and last_warned_remaining,
\* drop(state), and the return value
TrackUpdate(c) ==
    /\ callers[c].pc = "locked"
    /\ LET me == callers[c]
           flags == record_headers_flags(me.seen, me.snapshot.v)
       IN  /\ tracker' = record_headers(me.seen, me.headers)
           /\ callers' = [callers EXCEPT ![c].pc = "returned",
                              ![c].ret = Some([snapshot |-> me.snapshot.v,
                                               log_change |-> flags.log_change,
                                               warn_low |-> flags.warn_low])]
           /\ recorded' = [recorded EXCEPT ![Len(recorded)].warn_low =
                              IF mutex = c THEN flags.warn_low ELSE @]
    /\ mutex' = IF mutex = c THEN 0 ELSE mutex
    /\ TrackFrame

----------------------------------------------------------------------------
(* cache.rs: two calls of save_cached_response for the same URL *)

Writers == 1..2

RaceInodes == 1..3

\* the JSON each call serializes: the entries differ in body and timestamp,
\* so the texts differ and need not have the same length
Json(w) == IF w = 1 THEN <<"a1", "a2", "a3">> ELSE <<"b1", "b2">>

\* the text of the entry an earlier save left
OldJson == <<"o1", "o2">>

NoRaceDisk == [path |-> 0, tmp |-> 0, data |-> [i \in RaceInodes |-> <<>>], free |-> 1]

NoWriter == [pc |-> "idle", fd |-> 0, off |-> 0]

\* write(2) on a descriptor opened without O_APPEND: the bytes go to the
\* descriptor's offset, over what is there; a gap before them reads as zeros
WriteAt(bytes, off, b) ==
    [i \in 1..Max(Len(bytes), off + 1) |->
        IF i = off + 1 THEN b
        ELSE IF i <= Len(bytes) THEN bytes[i]
        ELSE "0"]

\* the other steps of the race leave everything else alone
RaceFrame ==
    UNCHANGED <<restRaceVars, selVars, pipeVars, httpVars>>

\* File::create(&tmp_path): opens <key>.json.tmp for writing, creating it or
\* truncating the one that is there
RaceCreate(w) ==
    /\ writers[w].pc = "idle"
    /\ IF rdisk.tmp # 0
       THEN /\ rdisk' = [rdisk EXCEPT !.data[rdisk.tmp] = <<>>]
            /\ writers' = [writers EXCEPT ![w] = [pc |-> "created", fd |-> rdisk.tmp, off |-> 0]]
       ELSE /\ rdisk' = [rdisk EXCEPT !.tmp = rdisk.free, !.data[rdisk.free] = <<>>,
                                       !.free = rdisk.free + 1]
            /\ writers' = [writers EXCEPT ![w] = [pc |-> "created", fd |-> rdisk.free, off |-> 0]]
    /\ RaceFrame

\* serde_json::to_writer(&mut file, cached): the serializer writes the text
\* to the unbuffered File piece by piece; file.flush() does nothing more
RaceWrite(w) ==
    /\ writers[w].pc = "created"
    /\ LET me == writers[w]
       IN  /\ rdisk' = [rdisk EXCEPT !.data[me.fd] = WriteAt(@, me.off, Json(w)[me.off + 1])]
           /\ writers' = [writers EXCEPT ![w].off = me.off + 1,
                              ![w].pc = IF me.off + 1 = Len(Json(w)) THEN "written" ELSE "created"]
    /\ RaceFrame

\* if path.exists()
RaceExists(w) ==
    /\ writers[w].pc = "written"
    /\ writers' = [writers EXCEPT ![w].pc = IF rdisk.path # 0 THEN "remove" ELSE "rename"]
    /\ UNCHANGED rdisk
    /\ RaceFrame

\* fs::remove_file(&path)?: NotFound when the other call removed it first
RaceRemove(w) ==
    /\ writers[w].pc = "remove"
    /\ IF rdisk.path # 0
       THEN /\ rdisk' = [rdisk EXCEPT !.path = 0]
            /\ writers' = [writers EXCEPT ![w].pc = "rename"]
       ELSE /\ writers' = [writers EXCEPT ![w].pc = "failed"]
            /\ UNCHANGED rdisk
    /\ RaceFrame

\* fs::rename(&tmp_path, &path)?: NotFound when the other call renamed the
\* temporary file first
RaceRename(w) ==
    /\ writers[w].pc = "rename"
    /\ IF rdisk.tmp # 0
       THEN /\ rdisk' = [rdisk EXCEPT !.path = rdisk.tmp, !.tmp = 0]
            /\ writers' = [writers EXCEPT ![w].pc = "saved"]
       ELSE /\ writers' = [writers EXCEPT ![w].pc = "failed"]
            /\ UNCHANGED rdisk
    /\ RaceFrame

----------------------------------------------------------------------------
(* http.rs: send_github_request and send_github_request_cached *)

MAX_ATTEMPTS == 5

NoResponse == Response(0, None, None, None, None, None, None, None, "", TRUE)

SNone    == [state |-> "none", resp |-> NoResponse, err |-> <<>>]
SOk(r)   == [state |-> "ok",   resp |-> r,          err |-> <<>>]
SErr(e)  == [state |-> "err",  resp |-> NoResponse, err |-> e]

HNone    == [state |-> "none", body |-> "", err |-> <<>>]
HOk(b)   == [state |-> "ok",   body |-> b,  err |-> <<>>]
HErr(e)  == [state |-> "err",  body |-> "", err |-> e]

NoCall == [kind |-> "none", url |-> "", no_cache |-> FALSE, looked |-> FALSE,
           found |-> Missing, saved |-> Missing, at |-> 0, loaded |-> LoadNone,
           tracker0 |-> NoTracker]

\* response.text().await.unwrap_or_else(|_| "<unable to read response body>")
BodyText(r) == IF r.readable THEN r.body ELSE "<unable to read response body>"

IsSuccess(status) == status \in 200..299

\* a loop that retries at once, without sleeping
IterationNoWait(r, t, n) ==
    LET retry(wait) ==
            IF wait.some
            THEN IF n = MAX_ATTEMPTS
                 THEN [ret |-> TRUE, wait |-> 0,
                       res |-> SErr(<<[msg |-> "exceeded rate limit",
                                       mentions |-> <<BodyText(r)>>]>>)]
                 ELSE [ret |-> FALSE, wait |-> 0, res |-> SNone]
            ELSE [ret |-> TRUE, wait |-> 0,
                  res |-> SErr(<<[msg |-> "failed with status",
                                  mentions |-> <<BodyText(r)>>]>>)]
    IN  IF IsSuccess(r.status) \/ r.status = 304
        THEN [ret |-> TRUE, wait |-> 0, res |-> SOk(r)]
        ELSE retry(backoff_duration(r, t))

\* a loop that gives up one attempt too late
IterationOneMore(r, t, n) ==
    LET retry(wait) ==
            IF wait.some
            THEN IF n = MAX_ATTEMPTS + 1
                 THEN [ret |-> TRUE, wait |-> 0,
                       res |-> SErr(<<[msg |-> "exceeded rate limit",
                                       mentions |-> <<BodyText(r)>>]>>)]
                 ELSE [ret |-> FALSE, wait |-> wait.v, res |-> SNone]
            ELSE [ret |-> TRUE, wait |-> 0,
                  res |-> SErr(<<[msg |-> "failed with status",
                                  mentions |-> <<BodyText(r)>>]>>)]
    IN  IF IsSuccess(r.status) \/ r.status = 304
        THEN [ret |-> TRUE, wait |-> 0, res |-> SOk(r)]
        ELSE retry(backoff_duration(r, t))

\* one iteration of the loop of send_github_request on response r at time t:
\* the result it returns, or the wait it sleeps before the next iteration
Iteration(r, t, n) ==
    LET retry(wait) ==
            IF wait.some
            THEN IF n = MAX_ATTEMPTS
                 THEN [ret |-> TRUE, wait |-> 0,
                       res |-> SErr(<<[msg |-> "exceeded rate limit",
                                       mentions |-> <<BodyText(r)>>]>>)]
                 ELSE [ret |-> FALSE, wait |-> wait.v, res |-> SNone]
            ELSE [ret |-> TRUE, wait |-> 0,
                  res |-> SErr(<<[msg |-> "failed with status",
                                  mentions |-> <<BodyText(r)>>]>>)]
    IN  IF IsSuccess(r.status) \/ r.status = 304
        THEN [ret |-> TRUE, wait |-> 0, res |-> SOk(r)]
        ELSE retry(backoff_duration(r, t))

\* send_github_request returns res: a direct caller has its result; the cached
\* wrapper propagates an error with `?` and goes on with a response
ReturnFromRequest(res) ==
    /\ sres' = res
    /\ IF res.state = "err"
       THEN hpc' = "returned" /\ hres' = HErr(res.err)
       ELSE IF call.kind = "direct"
            THEN hpc' = "returned" /\ hres' = HOk(res.resp.body)
            ELSE hpc' = "responded" /\ hres' = hres

\* send_github_request_cached up to its first request: the cache lookup
CachedStart(u, nc) ==
    /\ hpc = "idle"
    /\ \E checked \in BOOLEAN :
          LET look(loaded) ==
                  /\ call' = [kind |-> "cached", url |-> u, no_cache |-> nc,
                              looked |-> ~nc, found |-> cache[cache_key(u)],
                              saved |-> last_saved[u], at |-> now,
                              loaded |-> loaded, tracker0 |-> tracker]
                  /\ IF loaded.panic
                     THEN hpc' = "panicked" /\ hres' = HNone /\ attempt' = 0
                     ELSE IF loaded.some
                          THEN /\ hpc' = "returned"
                               /\ hres' = HOk(loaded.v.body)
                               /\ attempt' = 0
                          ELSE hpc' = "request" /\ hres' = HNone /\ attempt' = 1
          IN  look(IF nc THEN LoadNone
                   ELSE load_cached_response(cache, u, TtlSecs, now, checked))
    /\ sent' = 0
    /\ slept' = 0
    /\ sres' = SNone
    /\ received' = <<>>
    /\ UNCHANGED <<now, cache, server, tracker, last_saved, inVars, selVars, pipeVars>>

\* send_github_request is entered
BeginRequest(u) ==
    /\ call' = [NoCall EXCEPT !.kind = "direct", !.url = u, !.no_cache = TRUE,
                              !.at = now, !.tracker0 = tracker]
    /\ hpc' = "request"
    /\ attempt' = 1
    /\ sent' = 0
    /\ slept' = 0
    /\ sres' = SNone
    /\ hres' = HNone
    /\ received' = <<>>
    /\ UNCHANGED <<now, cache, server, tracker, last_saved>>

\* a caller of send_github_request itself (download_zip_file)
DirectStart(u) ==
    /\ hpc = "idle"
    /\ BeginRequest(u)
    /\ UNCHANGED <<inVars, selVars, pipeVars>>

\* one iteration of `for attempt in 1..=MAX_ATTEMPTS`: the request is sent; a
\* transport failure returns at once; a response is recorded by the tracker and
\* returned, or slept on.  The sleep moves the clock (it stops at U64Max).
Attempt ==
    /\ hpc = "request"
    /\ IF attempt > MAX_ATTEMPTS
       THEN /\ ReturnFromRequest(SErr(<<E("failed after exhausting retries")>>))
            /\ UNCHANGED <<sent, tracker, attempt, slept, now, received>>
       ELSE /\ sent' = sent + 1
            /\ \/ /\ ReturnFromRequest(SErr(<<E("GitHub request failed"),
                                             E("transport error")>>))
                  /\ UNCHANGED <<tracker, attempt, slept, now, received>>
               \/ \E r \in server :
                     LET step(it) ==
                             IF it.ret
                             THEN /\ ReturnFromRequest(it.res)
                                  /\ UNCHANGED <<attempt, slept, now>>
                             ELSE /\ attempt' = attempt + 1
                                  /\ slept' = slept + it.wait
                                  /\ now' = Min(now + it.wait, U64Max)
                                  /\ UNCHANGED <<hpc, sres, hres>>
                     IN  /\ tracker' = record_headers(tracker, r)
                         /\ received' = Append(received, [resp |-> r, at |-> now])
                         /\ IF ~(IsSuccess(r.status) \/ r.status = 304)
                               /\ backoff_panics(r)
                            THEN /\ hpc' = "panicked"
                                 /\ UNCHANGED <<attempt, slept, now, sres, hres>>
                            ELSE step(Iteration(r, now, attempt))
    /\ UNCHANGED <<cache, server, call, last_saved, inVars, selVars, pipeVars>>

\* a wrapper that stores every response it read when caching is on
StoresResponseAlways(no_cache, r) == ~no_cache

\* `!no_cache && (etag.is_some() || last_modified.is_some())`
StoresResponse(no_cache, r) == ~no_cache /\ (r.etag.some \/ r.last_modified.some)

\* send_github_request_cached after the response: the body is read, stored
\* when caching is on and the response has a validator, and returned
CacheAndReturn ==
    /\ hpc = "responded"
    /\ hpc' = "returned"
    /\ LET r == sres.resp IN
       IF ~r.readable
       THEN /\ hres' = HErr(<<E("failed to read response body"),
                              E("transport error")>>)
            /\ UNCHANGED <<cache, last_saved>>
       ELSE /\ hres' = HOk(r.body)
            /\ IF StoresResponse(call.no_cache, r)
               THEN \E outcome \in SaveOutcomes(cache,
                                   CachedResponse(call.url, r.body, r.etag,
                                                  r.last_modified, now)) :
                       LET cached == CachedResponse(call.url, r.body, r.etag,
                                                    r.last_modified, now)
                       IN  /\ cache' = save_cached_response(cache, cached, outcome)
                           /\ last_saved' =
                                 IF outcome = "ok"
                                 THEN [last_saved EXCEPT ![call.url] = cached]
                                 ELSE IF outcome = "rename_failed"
                                 THEN [last_saved EXCEPT ![call.url] = Missing]
                                 ELSE last_saved
               ELSE UNCHANGED <<cache, last_saved>>
    /\ UNCHANGED <<now, server, call, attempt, sent, slept, sres, tracker, received,
                   inVars, selVars, pipeVars>>

\* the caller goes on; after a panic the process is gone and a new one starts
CallDone ==
    /\ hpc \in {"returned", "panicked"}
    /\ hpc' = "idle"
    /\ call' = NoCall
    /\ attempt' = 0
    /\ sent' = 0
    /\ slept' = 0
    /\ sres' = SNone
    /\ hres' = HNone
    /\ tracker' = IF hpc = "panicked" THEN NoTracker ELSE tracker
    /\ received' = <<>>
    /\ UNCHANGED <<now, cache, server, last_saved, inVars, selVars, pipeVars>>

\* the system clock is set, forwards or backwards
ClockSet ==
    /\ hpc = "idle"
    /\ \E t \in 0..U64Max : t # now /\ now' = t
    /\ UNCHANGED <<cache, server, hpc, call, attempt, sent, slept, sres, hres,
                   tracker, last_saved, received, inVars, selVars, pipeVars>>

\* a cache file is deleted, damaged or made unreadable from outside
Damage(u) ==
    /\ hpc = "idle"
    /\ \E f \in {Missing, Unreadable, Corrupt} :
          /\ f # cache[cache_key(u)]
          /\ cache' = [cache EXCEPT ![cache_key(u)] = f]
    /\ UNCHANGED <<now, server, hpc, call, attempt, sent, slept, sres, hres,
                   tracker, last_saved, received, inVars, selVars, pipeVars>>

----------------------------------------------------------------------------
(* download/file.rs: download_file, one file streamed to target_path *)

\* what is at target_path
Absent == [kind |-> "absent", bytes |-> <<>>]
FileOf(bytes) == [kind |-> "file", bytes |-> bytes]
Directory == [kind |-> "dir", bytes |-> <<>>]

\* calculate_git_blob_sha1: the digest of "blob <len>\0" followed by the
\* content; distinct contents get distinct digests
calculate_git_blob_sha1(content) == <<"sha1", "blob", Len(content), content>>

\* verify_file_hash, the file read back in full
verify_file_hash(bytes, expected_sha) == calculate_git_blob_sha1(bytes) = expected_sha

\* download/calculations.rs: can_resume_download
can_resume_download(partial_size, expected_size, supports_ranges) ==
    /\ supports_ranges
    /\ partial_size > 0
    /\ (IF expected_size.some THEN partial_size < expected_size.v ELSE FALSE)

\* download/calculations.rs: should_replace_partial
should_replace_partial(partial_size, expected_size) ==
    IF expected_size.some THEN partial_size >= expected_size.v ELSE FALSE

\* check_partial_download: the first byte to ask for, whether the file was
\* opened for append, and what is at target_path afterwards
check_partial_download(t, expected_size) ==
    IF t.kind # "file" THEN [start |-> 0, handle |-> FALSE, after |-> t]
    ELSE IF expected_size.some /\ Len(t.bytes) >= expected_size.v
         THEN [start |-> 0, handle |-> FALSE, after |-> Absent]
    ELSE IF Len(t.bytes) > 0
         THEN [start |-> Len(t.bytes), handle |-> TRUE, after |-> t]
    ELSE [start |-> 0, handle |-> FALSE, after |-> t]

DNone   == [state |-> "none", err |-> <<>>]
DOk     == [state |-> "ok",   err |-> <<>>]
DErr(e) == [state |-> "err",  err |-> e]

NoDownloadCall ==
    [item |-> [size |-> None, sha |-> None], no_cache |-> FALSE, before |-> Absent,
     start |-> 0, handle |-> FALSE, answered |-> None, rerequested |-> FALSE,
     ranged |-> NoResponse, fresh |-> NoResponse, written |-> None]

\* the hash check that keeps a file whose digest differs
AfterVerifyKeep(item, bytes) ==
    IF item.sha.some /\ ~verify_file_hash(bytes, item.sha.v)
    THEN [after |-> FileOf(bytes), res |-> DErr(<<E("Hash verification failed")>>)]
    ELSE [after |-> FileOf(bytes), res |-> DOk]

\* lines 130-143: the hash check after the last byte is flushed
AfterVerify(item, bytes) ==
    IF item.sha.some /\ ~verify_file_hash(bytes, item.sha.v)
    THEN [after |-> Absent, res |-> DErr(<<E("Hash verification failed")>>)]
    ELSE [after |-> FileOf(bytes), res |-> DOk]

\* a write that always starts from an empty file
WriteBaseTruncate(handle, t) == <<>>

\* the bytes the body is written after: those of the file opened for append,
\* none for a file made by File::create
WriteBase(handle, t) == IF handle THEN t.bytes ELSE <<>>

\* the ways the body of r streams into a file that holds base: every chunk
\* arrives, or the stream fails after some of them
StreamInto(base, r) ==
    IF r.readable THEN {[ok |-> TRUE, bytes |-> base \o r.body]}
    ELSE {[ok |-> FALSE, bytes |-> base \o SubSeq(r.body, 1, k)] :
             k \in 0..Max(Len(r.body) - 1, 0)}

\* send_github_request has returned to download_file
EndRequest ==
    /\ hpc' = "idle"
    /\ UNCHANGED <<now, cache, server, call, attempt, sent, slept, sres, hres,
                   tracker, last_saved, received>>

\* history: the last response the first request of the call was answered with
LastAnswer == IF received = <<>> THEN None ELSE Some(Last(received).resp)

Answered(field) == IF field = "ranged" THEN LastAnswer ELSE dcall.answered

\* lines 93-143 and 109-143: the file is created unless it is open for append,
\* the body is streamed into it and flushed, the hash is checked
WriteAndVerify(handle, r, field) ==
    IF ~handle /\ tfile.kind = "dir"
    THEN /\ dres' = DErr(<<E("failed to create file"), E("io error")>>)
         /\ dcall' = [dcall EXCEPT ![field] = r, !.answered = Answered(field)]
         /\ UNCHANGED tfile
    ELSE \E w \in StreamInto(WriteBase(handle, tfile), r) :
            IF ~w.ok
            THEN /\ tfile' = FileOf(w.bytes)
                 /\ dres' = DErr(<<E("failed to read data"), E("io error")>>)
                 /\ dcall' = [dcall EXCEPT ![field] = r, !.answered = Answered(field)]
            ELSE /\ tfile' = AfterVerify(dcall.item, w.bytes).after
                 /\ dres' = AfterVerify(dcall.item, w.bytes).res
                 /\ dcall' = [dcall EXCEPT ![field] = r, !.written = Some(w.bytes),
                                           !.answered = Answered(field)]

\* download_file up to its first request: the partial file is looked for
\* unless no_cache is set, and the request carries Range when start_byte > 0
FileStart(item, no_cache) ==
    /\ dpc = "idle"
    /\ hpc = "idle"
    /\ \/ \* metadata() fails with an error other than NotFound
          /\ ~no_cache
          /\ dpc' = "returned"
          /\ dres' = DErr(<<E("failed to check for partial download"), E("io error")>>)
          /\ dcall' = [NoDownloadCall EXCEPT !.item = item, !.no_cache = no_cache,
                                             !.before = tfile]
          /\ UNCHANGED <<tfile, httpVars>>
       \/ LET begin(c) ==
                  /\ tfile' = c.after
                  /\ dcall' = [NoDownloadCall EXCEPT !.item = item, !.no_cache = no_cache,
                                   !.before = tfile, !.start = c.start, !.handle = c.handle]
          IN  /\ begin(IF no_cache THEN [start |-> 0, handle |-> FALSE, after |-> tfile]
                       ELSE check_partial_download(tfile, item.size))
              /\ dpc' = "first"
              /\ BeginRequest("u1")
              /\ UNCHANGED dres
    /\ UNCHANGED <<cmdVars, unitVars, applied, listVars, diskVars, selVars, pipeVars>>

\* the first request returned: its error is passed on; a response other than
\* 206 to a request with Range has the partial file removed and the request
\* sent again without Range; any other response is written
FileFirstResponse ==
    /\ dpc = "first"
    /\ hpc = "returned"
    /\ IF sres.state = "err"
       THEN /\ dres' = DErr(context(sres.err, E("failed to download")))
            /\ dpc' = "returned"
            /\ EndRequest
            /\ dcall' = [dcall EXCEPT !.answered = LastAnswer]
            /\ UNCHANGED tfile
       ELSE IF dcall.start > 0 /\ sres.resp.status # 206
       THEN /\ tfile' = IF dcall.handle THEN Absent ELSE tfile
            /\ dcall' = [dcall EXCEPT !.ranged = sres.resp, !.answered = LastAnswer,
                                      !.rerequested = TRUE]
            /\ dpc' = "fresh"
            /\ BeginRequest("u1")
            /\ UNCHANGED dres
       ELSE /\ WriteAndVerify(dcall.handle, sres.resp, "ranged")
            /\ dpc' = "returned"
            /\ EndRequest
    /\ UNCHANGED <<cmdVars, unitVars, applied, listVars, diskVars, selVars, pipeVars>>

\* the request without Range returned: the file is made anew and written
FileFreshResponse ==
    /\ dpc = "fresh"
    /\ hpc = "returned"
    /\ IF sres.state = "err"
       THEN /\ dres' = DErr(context(sres.err, E("failed to download")))
            /\ UNCHANGED <<tfile, dcall>>
       ELSE WriteAndVerify(FALSE, sres.resp, "fresh")
    /\ dpc' = "returned"
    /\ EndRequest
    /\ UNCHANGED <<cmdVars, unitVars, applied, listVars, diskVars, selVars, pipeVars>>

----------------------------------------------------------------------------
(* main.rs: the loop over the URLs *)

\* a loop that goes on to the next URL whatever the last one returned
NeverStops(res) == FALSE

\* download_github_path(..).await?: an Err leaves the loop and main
StopsAt(res) == ~res.ok

\* for url in urls: download_github_path is called for the next URL
MainNextUrl ==
    /\ main_pc = "loop"
    /\ spc = "idle"
    /\ IF url_idx <= Len(urls)
       THEN /\ main_pc' = "calling"
            /\ request' = urls[url_idx]
            /\ started' = Append(started, [idx |-> url_idx, fsys |-> fs, res |-> NoResult])
       ELSE /\ main_pc' = "ok"
            /\ UNCHANGED <<request, started>>
    /\ UNCHANGED <<urls, url_idx, main_err>>
    /\ UNCHANGED <<strategy, git_avail, output, contents, sublisting, entries, force, tty,
                   answer, parallel>>
    /\ UNCHANGED <<applied, fileVars, listVars, diskVars, raceVars, trackVars, zipVars,
                   progVars, gitcVars, selVars, pipeVars, httpVars>>

\* the call returned: its error ends main, its success moves to the next URL
MainAfterUrl ==
    /\ main_pc = "calling"
    /\ spc = "returned"
    /\ IF StopsAt(result)
       THEN /\ main_pc' = "err"
            /\ main_err' = result.err
            /\ UNCHANGED <<url_idx, selVars, pipeVars>>
       ELSE /\ main_pc' = "loop"
            /\ url_idx' = url_idx + 1
            /\ spc' = "idle"
            /\ attempts' = <<>>
            /\ errs' = <<>>
            /\ result' = NoResult
            /\ pipeline' = "None"
            /\ ppc' = "idle"
            /\ base_path' = <<>>
            /\ output_dir' = <<>>
            /\ tasks' = <<>>
            /\ perr' = <<>>
            /\ fs0' = fs
            /\ dl' = <<>>
            /\ next_task' = 1
            /\ UNCHANGED <<main_err, fs, gate_log>>
    /\ started' = [started EXCEPT ![Len(started)].res = result]
    /\ UNCHANGED urls
    /\ UNCHANGED <<restBatchVars, httpVars>>

\* the process ended and the same command line is run again: a new
\* download_github_path over the files the last run left
RunAgain ==
    /\ main_pc = "calling"
    /\ spc = "returned"
    /\ url_idx < Len(urls)
    /\ main_pc' = "loop"
    /\ url_idx' = url_idx + 1
    /\ spc' = "idle"
    /\ attempts' = <<>>
    /\ errs' = <<>>
    /\ result' = NoResult
    /\ pipeline' = "None"
    /\ ppc' = "idle"
    /\ base_path' = <<>>
    /\ output_dir' = <<>>
    /\ tasks' = <<>>
    /\ perr' = <<>>
    /\ fs0' = fs
    /\ dl' = <<>>
    /\ next_task' = 1
    /\ started' = [started EXCEPT ![Len(started)].res = result]
    /\ UNCHANGED <<main_err, fs, gate_log, urls>>
    /\ UNCHANGED <<restBatchVars, httpVars>>

----------------------------------------------------------------------------
(* progress.rs and download/manager.rs: the counters of a fan-out *)

NoProgress == [total_files |-> 0, downloaded_files |-> 0, total_bytes |-> 0,
               downloaded_bytes |-> 0]

\* a + b in u64 with saturating_add
saturating_add(a, b) == Min(a + b, U64Max)

\* the sum of the known sizes, as a number
RECURSIVE KnownSum(_)
KnownSum(sizes) ==
    IF sizes = <<>> THEN 0
    ELSE (IF Head(sizes).some THEN Head(sizes).v ELSE 0) + KnownSum(Tail(sizes))

SizesOf(js) == [i \in DOMAIN js |-> js[i].size]

\* a lock that every task takes at once
ProgressMutexIgnored == TRUE

\* progress.lock().await returns when no task holds the guard
ProgressMutexFree == pmutex = 0

\* DownloadProgress::record_download on the fields the guard gave
record_download(p, size) ==
    [p EXCEPT !.downloaded_files = p.downloaded_files + 1,
              !.downloaded_bytes = IF size.some THEN saturating_add(p.downloaded_bytes, size.v)
                                   ELSE p.downloaded_bytes]

JobsInFlight == {j \in DOMAIN jobs : jobs[j].pc \notin {"idle", "done"}}

ProgFrame == UNCHANGED <<restProgVars, selVars, pipeVars, httpVars>>

\* total_files, total_bytes and DownloadProgress::with_multi_progress; the sum
\* of u64 panics on overflow with overflow checks and wraps without them
ProgressNew ==
    /\ fan_pc = "new"
    /\ LET sum == KnownSum(SizesOf(jobs))
       IN  \/ /\ progress' = [total_files |-> Len(jobs), downloaded_files |-> 0,
                              total_bytes |-> sum % (U64Max + 1), downloaded_bytes |-> 0]
              /\ fan_pc' = "running"
           \/ /\ sum > U64Max
              /\ fan_pc' = "panicked"
              /\ UNCHANGED progress
    /\ UNCHANGED <<pmutex, jobs>>
    /\ ProgFrame

\* buffer_unordered polls the next task while a slot is free; create_dir_all
JobStart(i) ==
    /\ fan_pc = "running"
    /\ jobs[i].pc = "idle"
    /\ \A j \in 1..(i - 1) : jobs[j].pc # "idle"
    /\ Cardinality(JobsInFlight) < effective_parallel
    /\ \/ jobs' = [jobs EXCEPT ![i].pc = "log_start"] /\ fan_pc' = fan_pc
       \/ fan_pc' = "failed" /\ jobs' = jobs
    /\ UNCHANGED <<progress, pmutex>>
    /\ ProgFrame

\* the first block: the guard is taken, log_start reads, the guard is dropped
JobLogStart(i) ==
    /\ fan_pc = "running"
    /\ jobs[i].pc = "log_start"
    /\ ProgressMutexFree
    /\ jobs' = [jobs EXCEPT ![i].pc = "fetch"]
    /\ UNCHANGED <<progress, pmutex, fan_pc>>
    /\ ProgFrame

\* download_file(..).await?: an Err ends the fan-out, the other tasks are dropped
JobFetch(i) ==
    /\ fan_pc = "running"
    /\ jobs[i].pc = "fetch"
    /\ \/ jobs' = [jobs EXCEPT ![i].pc = "lock"] /\ fan_pc' = fan_pc
       \/ fan_pc' = "failed" /\ jobs' = jobs
    /\ UNCHANGED <<progress, pmutex>>
    /\ ProgFrame

\* let mut guard = progress.lock().await
JobLock(i) ==
    /\ fan_pc = "running"
    /\ jobs[i].pc = "lock"
    /\ ProgressMutexFree
    /\ pmutex' = i
    /\ jobs' = [jobs EXCEPT ![i].pc = "locked", ![i].seen = progress]
    /\ UNCHANGED <<progress, fan_pc>>
    /\ ProgFrame

\* guard.record_download(..), then the guard is dropped
JobRecord(i) ==
    /\ fan_pc = "running"
    /\ jobs[i].pc = "locked"
    /\ progress' = record_download(jobs[i].seen, jobs[i].size)
    /\ pmutex' = IF pmutex = i THEN 0 ELSE pmutex
    /\ jobs' = [jobs EXCEPT ![i].pc = "done"]
    /\ UNCHANGED fan_pc
    /\ ProgFrame

\* try_collect returned Ok, and the counters are read for the last line
FanFinish ==
    /\ fan_pc = "running"
    /\ \A i \in DOMAIN jobs : jobs[i].pc = "done"
    /\ ProgressMutexFree
    /\ fan_pc' = "ok"
    /\ UNCHANGED <<progress, pmutex, jobs>>
    /\ ProgFrame

----------------------------------------------------------------------------
(* zip/archive.rs: the archive in the repo cache *)

MaxRuns == 2

NoZipCall == [no_cache |-> FALSE, found |-> Absent, reused |-> FALSE,
              requested |-> FALSE, answer |-> NoResponse, opened |-> None]

EmptyRepoCache == [zip |-> Absent, tmp |-> Absent]

ZipFrame ==
    UNCHANGED <<restZipVars, selVars, pipeVars, now, cache, server, hpc, call, attempt,
                sent, slept, sres, hres, last_saved, received>>

\* an archive in the repo cache is reused whatever no_cache says
must_download_if_absent(found, nc) == found = Absent

\* !zip_path.exists() || no_cache
must_download(found, nc) == found = Absent \/ nc

\* a download that streams the body to the final path itself
ZipTempInPlace == "zip"

\* dest_path.with_extension("zip.tmp"): the file the body is streamed to
ZipTemp == "tmp"

\* download_via_zip_impl up to the download (lines 88-111): the archive is
\* downloaded unless it is in the repo cache and caching is enabled; the
\* archive at zip_path is then opened by extract_from_zip
ZipImplStart(nc) ==
    /\ zpc \in {"idle", "extracting", "failed"}
    /\ zruns < MaxRuns
    /\ zruns' = zruns + 1
    /\ IF must_download(repo_cache.zip, nc)
       THEN /\ zpc' = "download"
            /\ zcall' = [NoZipCall EXCEPT !.no_cache = nc, !.found = repo_cache.zip]
       ELSE /\ zpc' = "extracting"
            /\ zcall' = [NoZipCall EXCEPT !.no_cache = nc, !.found = repo_cache.zip,
                             !.reused = TRUE, !.opened = Some(repo_cache.zip)]
    /\ UNCHANGED <<repo_cache, tracker>>
    /\ ZipFrame

\* download_zip_file: the request is sent once; its headers are recorded; a
\* status other than 2xx is an error; the body is streamed to the temporary
\* file, which is renamed to the final path after the last chunk
DownloadZipFile ==
    /\ zpc = "download"
    /\ \/ \* req.send() fails
          /\ zpc' = "failed"
          /\ zcall' = [zcall EXCEPT !.requested = TRUE]
          /\ UNCHANGED <<repo_cache, tracker>>
       \/ \E r \in server :
             /\ tracker' = record_headers(tracker, r)
             /\ IF ~IsSuccess(r.status)
                THEN /\ zpc' = "failed"
                     /\ zcall' = [zcall EXCEPT !.requested = TRUE, !.answer = r]
                     /\ UNCHANGED repo_cache
                ELSE \/ \* File::create(&temp_path) fails
                        /\ zpc' = "failed"
                        /\ zcall' = [zcall EXCEPT !.requested = TRUE, !.answer = r]
                        /\ UNCHANGED repo_cache
                     \/ \E w \in StreamInto(<<>>, r) :
                           IF ~w.ok
                           THEN /\ repo_cache' = [repo_cache EXCEPT ![ZipTemp] = FileOf(w.bytes)]
                                /\ zpc' = "failed"
                                /\ zcall' = [zcall EXCEPT !.requested = TRUE, !.answer = r]
                           ELSE \/ \* the body is complete and the rename succeeds
                                   /\ repo_cache' = [zip |-> FileOf(w.bytes), tmp |-> Absent]
                                   /\ zpc' = "extracting"
                                   /\ zcall' = [zcall EXCEPT !.requested = TRUE, !.answer = r,
                                                    !.opened = Some(FileOf(w.bytes))]
                                \/ \* fs::rename fails
                                   /\ repo_cache' = [repo_cache EXCEPT ![ZipTemp] = FileOf(w.bytes)]
                                   /\ zpc' = "failed"
                                   /\ zcall' = [zcall EXCEPT !.requested = TRUE, !.answer = r]
    /\ UNCHANGED zruns
    /\ ZipFrame

----------------------------------------------------------------------------
(* initial states *)

PipelineIdle ==
    /\ spc = "idle"
    /\ attempts = <<>>
    /\ errs = <<>>
    /\ result = NoResult
    /\ pipeline = "None"
    /\ ppc = "idle"
    /\ base_path = <<>>
    /\ output_dir = <<>>
    /\ tasks = <<>>
    /\ perr = <<>>
    /\ fs0 = fs
    /\ dl = <<>>
    /\ next_task = 1
    /\ gate_log = <<>>
    /\ applied = NoApplication
    /\ dpc = "idle"
    /\ dcall = NoDownloadCall
    /\ dres = DNone

\* the parts that this behaviour does not run on their own stay as they are
UnitsIdleBut(S) ==
    /\ "race" \in S \/ (rdisk = NoRaceDisk /\ writers = [w \in Writers |-> NoWriter])
    /\ "track" \in S \/ (mutex = 0 /\ callers = [c \in Callers |-> NoCaller]
                            /\ recorded = <<>>)
    /\ "zip" \in S \/ (repo_cache = EmptyRepoCache /\ zpc = "idle" /\ zcall = NoZipCall
                          /\ zruns = 0)
    /\ "batch" \in S \/ (urls = <<>> /\ url_idx = 1 /\ main_pc = "loop"
                            /\ main_err = <<>> /\ started = <<>>)
    /\ "prog" \in S \/ (progress = NoProgress /\ pmutex = 0 /\ jobs = <<>>
                           /\ fan_pc = "new")
    /\ "gitc" \in S \/ (git_repo = NoGitRepo /\ gpc = "idle" /\ gcall = NoGitCall
                           /\ gdone = <<>>)

IdleState == PipelineIdle /\ UnitsIdleBut({})

\* no enumeration runs, and nothing saves or loads on its own
NoEnumeration ==
    /\ lpc = "idle"
    /\ ls = [n \in Dirs |-> "waiting"]
    /\ disk = EmptyDisk
    /\ saver = NoSaver
    /\ loader = NoLoader

HttpQuiet ==
    /\ cache = [k \in Keys |-> Missing]
    /\ hpc = "idle"
    /\ call = NoCall
    /\ attempt = 0
    /\ sent = 0
    /\ slept = 0
    /\ sres = SNone
    /\ hres = HNone
    /\ tracker = NoTracker
    /\ last_saved = [u \in Urls |-> Missing]
    /\ received = <<>>

HttpIdle == now = 0 /\ HttpQuiet

\* names a forge may send with an item
Names == {<<>>, <<"a">>, <<".", ".", "/", "a">>, <<"/", "a">>, <<"a", "/", ".", ".">>}

NoSub == [d \in {} |-> <<>>]
NoFiles == [k \in {} |-> "old"]

\* the API pipeline on a listing of one File item with any path of up to
\* MaxPathLen characters and any name of Names, alone or after another file
InitPath ==
    /\ strategy = "Api"
    /\ git_avail = FALSE
    /\ request \in {[path |-> q, has_trailing_slash |-> FALSE, kind |-> "Tree"] :
                        q \in {<<>>, <<"a">>}}
    /\ output = None
    /\ \E p \in StrUpTo(MaxPathLen), n \in Names :
          contents \in {<<Item(p, n, "File")>>,
                        <<Item(<<"a", "/", "a">>, <<"a">>, "File"), Item(p, n, "File")>>}
    \* a single-file listing takes its base from the item, not from the request
    /\ (Len(contents) = 1 => request.path = <<>>)
    /\ sublisting = NoSub
    /\ entries = <<>>
    /\ force = FALSE
    /\ tty = [out |-> FALSE, in |-> FALSE]
    /\ answer = <<>>
    /\ parallel = 1
    /\ fs = NoFiles
    /\ tfile = Absent
    /\ IdleState
    /\ server = {}
    /\ NoEnumeration
    /\ HttpIdle

NextPath == SelectStrategy \/ Return \/ NextApi

SpecPath == InitPath /\ [][NextPath]_vars

\* the content of the branch: a directory with a file and a sub-directory,
\* and a file beside it
Branch ==
    << [path |-> <<"a">>, type |-> "Dir"],
       [path |-> <<"a", "/", "x">>, type |-> "File"],
       [path |-> <<"a", "/", "d">>, type |-> "Dir"],
       [path |-> <<"a", "/", "d", "/", "y">>, type |-> "File"],
       [path |-> <<"b">>, type |-> "File"] >>

TreeRequest == [path |-> <<"a">>, has_trailing_slash |-> FALSE, kind |-> "Tree"]
BlobRequest == [path |-> <<"a", "/", "x">>, has_trailing_slash |-> FALSE,
                kind |-> "Blob"]
WholeRequest == [path |-> <<>>, has_trailing_slash |-> FALSE, kind |-> "Tree"]

\* what the contents API lists for the request, and for the sub-directory
Listing(req) ==
    IF req.kind = "Blob" THEN <<Item(<<"a", "/", "x">>, <<"x">>, "File")>>
    ELSE IF req.path = <<>>
    THEN <<Item(<<"a">>, <<"a">>, "Dir"), Item(<<"b">>, <<"b">>, "File")>>
    ELSE <<Item(<<"a", "/", "x">>, <<"x">>, "File"),
           Item(<<"a", "/", "d">>, <<"d">>, "Dir")>>

SubListing ==
    [d \in {<<"a">>, <<"a", "/", "d">>} |->
        IF d = <<"a">>
        THEN <<Item(<<"a", "/", "x">>, <<"x">>, "File"),
               Item(<<"a", "/", "d">>, <<"d">>, "Dir")>>
        ELSE <<Item(<<"a", "/", "d", "/", "y">>, <<"y">>, "File")>>]

\* the places the pipelines write to for these requests
Places == {<<Normal(<<"a">>), Normal(<<"x">>)>>,
           <<Normal(<<"a">>), Normal(<<"d">>), Normal(<<"y">>)>>,
           <<Normal(<<"x">>)>>}

\* lines the user may type at the prompt (the empty one is end of input)
YesLines == {<<"y", "\n">>, <<"Y", "\n">>, <<" ", "y", "e", "s", " ", "\r", "\n">>,
             <<"Y", "E", "S", "\n">>}
NoLines  == {<<>>, <<"\n">>, <<"n", "\n">>, <<"y", "e", "\n">>,
             <<"y", " ", "y", "\n">>, ReadFailed}

Terminals ==
    {[tty |-> [out |-> o, in |-> i], answer |-> l] :
        o \in BOOLEAN, i \in BOOLEAN, l \in YesLines \cup NoLines}

\* without a terminal on both sides nothing is read: one line stands for all
Sessions == {t \in Terminals : (t.tty.out /\ t.tty.in) \/ t.answer = <<"y", "\n">>}

\* one explicit strategy on the branch, with any mix of existing files, of
\* --force, of terminals and of answers
InitGate ==
    /\ strategy \in {"Api", "Git", "Zip"}
    /\ git_avail = TRUE
    /\ request \in {TreeRequest, BlobRequest}
    /\ output = None
    /\ contents = Listing(request)
    /\ sublisting = SubListing
    /\ entries = Branch
    /\ force \in BOOLEAN
    /\ \E t \in Sessions : tty = t.tty /\ answer = t.answer
    /\ parallel = 2
    /\ \E existing \in SUBSET Places : fs = [k \in existing |-> "old"]
    /\ tfile = Absent
    /\ IdleState
    /\ server = {}
    /\ NoEnumeration
    /\ HttpIdle

NextGate == SelectStrategy \/ Return \/ NextApi \/ NextGit \/ NextZip

SpecGate == InitGate /\ [][NextGate]_vars

\* the places of a/x under the default output directories
AutoPlaces == {<<Normal(<<"a">>), Normal(<<"x">>)>>, <<Normal(<<"x">>)>>}

\* the Auto strategy on the branch, with and without a git client, for the
\* whole repository, a directory or a file, in a session without a terminal
InitAuto ==
    /\ strategy = "Auto"
    /\ git_avail \in BOOLEAN
    /\ request \in {WholeRequest, TreeRequest, BlobRequest}
    /\ output = None
    /\ contents = Listing(request)
    /\ sublisting = SubListing
    /\ entries = Branch
    /\ force \in BOOLEAN
    /\ tty = [out |-> FALSE, in |-> FALSE]
    /\ answer = <<"y", "\n">>
    /\ parallel = 2
    /\ \E existing \in SUBSET AutoPlaces : fs = [k \in existing |-> "old"]
    /\ tfile = Absent
    /\ IdleState
    /\ server = {}
    /\ NoEnumeration
    /\ HttpIdle

NextAuto == SelectStrategy \/ Fallback \/ Return \/ NextApi \/ NextGit \/ NextZip

SpecAuto == InitAuto /\ [][NextAuto]_vars

\* a session without a terminal, and one with a terminal where the user
\* answers no, answers yes, or stdin gives no line
GateSessions ==
    {t \in Sessions : t.answer \in {<<"y", "\n">>, <<"n", "\n">>, ReadFailed}}

\* the Auto strategy without --force, in those sessions, with any mix of
\* existing files
InitAutoGate ==
    /\ strategy = "Auto"
    /\ git_avail \in BOOLEAN
    /\ request \in {WholeRequest, TreeRequest, BlobRequest}
    /\ output = None
    /\ contents = Listing(request)
    /\ sublisting = SubListing
    /\ entries = Branch
    /\ force = FALSE
    /\ \E t \in GateSessions : tty = t.tty /\ answer = t.answer
    /\ parallel = 2
    /\ \E existing \in SUBSET AutoPlaces : fs = [k \in existing |-> "old"]
    /\ tfile = Absent
    /\ IdleState
    /\ server = {}
    /\ NoEnumeration
    /\ HttpIdle

SpecAutoGate == InitAutoGate /\ [][NextAuto]_vars

\* every strategy of the command line, with and without a git client, for the
\* whole repository, a directory or a file, with --force
InitValidate ==
    /\ strategy \in {"Auto", "Api", "Git", "Zip"}
    /\ git_avail \in BOOLEAN
    /\ request \in {WholeRequest, TreeRequest, BlobRequest}
    /\ output = None
    /\ contents = Listing(request)
    /\ sublisting = SubListing
    /\ entries = Branch
    /\ force = TRUE
    /\ tty = [out |-> FALSE, in |-> FALSE]
    /\ answer = <<"y", "\n">>
    /\ parallel = 2
    /\ fs = NoFiles
    /\ tfile = Absent
    /\ IdleState
    /\ server = {}
    /\ NoEnumeration
    /\ HttpIdle

NextValidate == CallValidateStrategy \/ NextAuto

SpecValidate == InitValidate /\ [][NextValidate]_vars

\* the branch with a file and a directory beside a whose names begin with "a"
BranchWithSiblings ==
    Branch \o << [path |-> <<"a", "x">>, type |-> "File"],
                 [path |-> <<"a", "b">>, type |-> "Dir"],
                 [path |-> <<"a", "b", "/", "y">>, type |-> "File"] >>

\* requests for a directory, a file and the whole branch, for a directory
\* that is not in the archive, and for a directory as if it were a file
ZipRequests ==
    {TreeRequest, BlobRequest, WholeRequest,
     [path |-> <<"c">>, has_trailing_slash |-> FALSE, kind |-> "Tree"],
     [path |-> <<"a">>, has_trailing_slash |-> FALSE, kind |-> "Blob"],
     [path |-> <<"a">>, has_trailing_slash |-> TRUE, kind |-> "Tree"]}

\* --strategy zip in a session without a terminal
InitZipExtract ==
    /\ strategy = "Zip"
    /\ git_avail = FALSE
    /\ request \in ZipRequests
    /\ output = None
    /\ contents = <<>>
    /\ sublisting = NoSub
    /\ entries \in {Branch, BranchWithSiblings}
    /\ force \in BOOLEAN
    /\ tty = [out |-> FALSE, in |-> FALSE]
    /\ answer = <<"y", "\n">>
    /\ parallel = 1
    /\ \E existing \in SUBSET AutoPlaces : fs = [k \in existing |-> "old"]
    /\ tfile = Absent
    /\ IdleState
    /\ server = {}
    /\ NoEnumeration
    /\ HttpIdle

NextZipExtract == SelectStrategy \/ Return \/ NextZip

SpecZipExtract == InitZipExtract /\ [][NextZipExtract]_vars

MaxUrls == 3

\* a URL for a directory that the branch does not have
NoSuchRequest == [path |-> <<"c">>, has_trailing_slash |-> FALSE, kind |-> "Tree"]

\* --strategy zip --force with up to MaxUrls URLs, for a directory, a file,
\* the whole branch, or a directory that is not there
InitBatch ==
    /\ strategy = "Zip"
    /\ git_avail = FALSE
    /\ request = WholeRequest
    /\ output = None
    /\ contents = <<>>
    /\ sublisting = NoSub
    /\ entries = Branch
    /\ force = TRUE
    /\ tty = [out |-> FALSE, in |-> FALSE]
    /\ answer = <<>>
    /\ parallel = 1
    /\ fs = NoFiles
    /\ tfile = Absent
    /\ PipelineIdle
    /\ UnitsIdleBut({"batch"})
    /\ server = {}
    /\ NoEnumeration
    /\ HttpIdle
    /\ urls \in UNION {[1..n -> {TreeRequest, BlobRequest, WholeRequest, NoSuchRequest}] :
                          n \in 1..MaxUrls}
    /\ url_idx = 1
    /\ main_pc = "loop"
    /\ main_err = <<>>
    /\ started = <<>>

NextBatch ==
    \/ MainNextUrl
    \/ main_pc = "calling" /\ (SelectStrategy \/ Return \/ NextZip)
    \/ MainAfterUrl

SpecBatch == InitBatch /\ [][NextBatch]_vars

\* no download is running
NoCommand(n) ==
    /\ strategy = "Api"
    /\ git_avail = FALSE
    /\ request = [path |-> <<>>, has_trailing_slash |-> FALSE, kind |-> "Tree"]
    /\ output = None
    /\ contents = <<>>
    /\ sublisting = NoSub
    /\ entries = <<>>
    /\ force = FALSE
    /\ tty = [out |-> FALSE, in |-> FALSE]
    /\ answer = <<>>
    /\ parallel = n
    /\ fs = NoFiles

NoPipelineAt(n) == NoCommand(n) /\ IdleState

NoPipeline == NoPipelineAt(1)

NoDownload == NoPipeline /\ tfile = Absent /\ NoEnumeration

\* nothing runs but the parts named in S
NoDownloadBut(S) ==
    /\ NoCommand(1)
    /\ PipelineIdle
    /\ UnitsIdleBut(S)
    /\ tfile = Absent
    /\ NoEnumeration

\* the cached wrapper against a forge that answers with a validator (and
\* rate-limit headers), without one, with an error status, or with a body that
\* cannot be read to its end
CacheServer ==
    {Response(200, None, Some(60), Some(10), None, None, Some("e1"), None, "b1", TRUE),
     Response(200, None, None, None, None, None, None, None, "b2", TRUE),
     Response(404, None, None, None, None, None, None, None, "nf", TRUE),
     Response(200, None, None, None, None, None, None, Some("m1"), "b3", FALSE)}

InitCache ==
    /\ NoDownload
    /\ server = CacheServer
    /\ HttpIdle

NextCache ==
    \/ \E u \in Urls, nc \in BOOLEAN : CachedStart(u, nc)
    \/ Attempt
    \/ CacheAndReturn
    \/ CallDone
    \/ ClockSet
    \/ \E u \in Urls : Damage(u)

SpecCache == InitCache /\ [][NextCache]_vars

\* the same forge, which also answers 304 with a validator
StoreServer ==
    CacheServer \cup
    {Response(304, None, None, None, None, None, Some("e1"), None, "", TRUE)}

InitStore ==
    /\ NoDownload
    /\ server = StoreServer
    /\ HttpIdle

\* calls for one URL
NextStore ==
    \/ \E nc \in BOOLEAN : CachedStart("u1", nc)
    \/ Attempt
    \/ CacheAndReturn
    \/ CallDone
    \/ ClockSet
    \/ Damage("u1")

SpecStore == InitStore /\ [][NextStore]_vars

\* the forge answers with rate-limit responses that carry Retry-After, a
\* reset time or both (one with a body that cannot be read), and with success,
\* 304, errors, 429 / 403 responses the backoff policy gives no wait for, and
\* a 429 whose reset time is the largest a u64 header holds
RateLimited ==
    {Response(429, Some(1), Some(60), Some(0), None, None, None, None, "rl1", TRUE),
     Response(429, None, None, None, None, Some(3), None, None, "rl2", TRUE),
     Response(403, Some(2), Some(60), Some(0), None, Some(1), None, None, "rl3", FALSE)}

Answers ==
    {Response(200, None, Some(60), Some(59), Some(1), None, None, None, "ok", TRUE),
     Response(304, None, None, None, None, None, None, None, "", TRUE),
     Response(404, None, None, None, None, None, None, None, "nf", TRUE),
     Response(500, None, None, None, None, None, None, None, "oops", FALSE),
     Response(429, None, None, None, None, None, None, None, "rl0", TRUE),
     Response(403, Some(1), Some(60), Some(7), None, None, None, None, "no", TRUE),
     Response(429, None, None, None, None, Some(U64Max), None, None, "rl4", TRUE)}

\* the statuses and headers backoff_duration is called with: every status
\* class, Retry-After and x-ratelimit-remaining absent, zero and positive, and
\* x-ratelimit-reset absent, at times the clock passes, and at the largest
\* second a u64 holds
BackoffStatuses == {200, 403, 404, 429, 500}

BackoffInputs ==
    {Response(st, ra, None, rem, None, rs, None, None, "", TRUE) :
        st \in BackoffStatuses, ra \in {None, Some(0), Some(2)},
        rem \in {None, Some(0), Some(3)},
        rs \in {None, Some(2), Some(TimeMax), Some(U64Max)}}

InitBackoff ==
    /\ NoDownload
    /\ server = {}
    /\ HttpIdle

NextBackoff ==
    \/ \E h \in BackoffInputs : CallBackoffDuration(h)
    \/ ClockSet

SpecBackoff == InitBackoff /\ [][NextBackoff]_vars

\* every stored second, every current second and every TTL a u64 holds, in
\* builds with and without overflow checks
InitFresh ==
    /\ NoDownload
    /\ server = {}
    /\ HttpIdle

NextFresh ==
    /\ applied = NoApplication
    /\ \E cached_at \in 0..U64Max, t \in 0..U64Max, ttl \in 0..U64Max, checked \in BOOLEAN :
          CallFreshness(cached_at, t, ttl, checked)

SpecFresh == InitFresh /\ [][NextFresh]_vars

\* a directory of four files, listed in one response
FanListing ==
    <<Item(<<"a", "/", "w">>, <<"w">>, "File"),
      Item(<<"a", "/", "x">>, <<"x">>, "File"),
      Item(<<"a", "/", "y">>, <<"y">>, "File"),
      Item(<<"a", "/", "z">>, <<"z">>, "File")>>

\* the API pipeline on that directory with --parallel 0, 1 and 2, --force,
\* and the first file there already or not
InitFan ==
    /\ strategy = "Api"
    /\ git_avail = FALSE
    /\ request = TreeRequest
    /\ output = None
    /\ contents = FanListing
    /\ sublisting = NoSub
    /\ entries = <<>>
    /\ force = TRUE
    /\ tty = [out |-> FALSE, in |-> FALSE]
    /\ answer = <<>>
    /\ parallel \in 0..MaxParallel
    /\ fs \in {NoFiles, [k \in {<<Normal(<<"a">>), Normal(<<"x">>)>>} |-> "old"]}
    /\ tfile = Absent
    /\ IdleState
    /\ server = {}
    /\ NoEnumeration
    /\ HttpIdle

NextFan == SelectStrategy \/ Return \/ NextApi

\* the runtime polls the futures of the pipeline for as long as one can move
SpecFan == InitFan /\ [][NextFan]_vars /\ WF_vars(NextApi)

\* the API pipeline on a directory of four files, two at a time, without
\* --force and without a terminal, run once and then run again
InitRerun ==
    /\ strategy = "Api"
    /\ git_avail = FALSE
    /\ request = TreeRequest
    /\ output = None
    /\ contents = FanListing
    /\ sublisting = NoSub
    /\ entries = <<>>
    /\ force = FALSE
    /\ tty = [out |-> FALSE, in |-> FALSE]
    /\ answer = <<>>
    /\ parallel = MaxParallel
    /\ fs = NoFiles
    /\ tfile = Absent
    /\ PipelineIdle
    /\ UnitsIdleBut({"batch"})
    /\ server = {}
    /\ NoEnumeration
    /\ HttpIdle
    /\ urls = <<TreeRequest, TreeRequest>>
    /\ url_idx = 1
    /\ main_pc = "loop"
    /\ main_err = <<>>
    /\ started = <<>>

NextRerun ==
    \/ MainNextUrl
    \/ main_pc = "calling" /\ (SelectStrategy \/ Return \/ NextApi)
    \/ RunAgain

SpecRerun == InitRerun /\ [][NextRerun]_vars

\* collect_download_tasks is called with the listing of the request, for
\* every --parallel up to MaxParallel
InitListing ==
    /\ \E n \in 0..MaxParallel : NoPipelineAt(n)
    /\ tfile = Absent
    /\ lpc = "running"
    /\ ls = [n \in Dirs |-> IF n = "" THEN "expanding" ELSE "waiting"]
    /\ disk = EmptyDisk
    /\ saver = NoSaver
    /\ loader = NoLoader
    /\ server = {}
    /\ HttpIdle

NextListing == \E d \in Dirs : ListFetch(d) \/ ListRespond(d) \/ ListJoin(d)

SpecListing == InitListing /\ [][NextListing]_vars

\* the entry saved, stamped with the time of the save
NewEntry == CachedResponse("u1", "new", Some("e2"), None, now)

\* <key>.json is absent or holds a complete entry of an earlier time, a
\* <key>.json.tmp may be left from a save that failed, and one call saves
\* while another loads
InitDisk ==
    /\ NoPipeline
    /\ tfile = Absent
    /\ lpc = "idle"
    /\ ls = [n \in Dirs |-> "waiting"]
    /\ saver = NoSaver
    /\ loader = NoLoader
    /\ server = {}
    /\ HttpQuiet
    /\ \E t \in 0..U64Max, t0 \in 0..U64Max, has_path \in BOOLEAN, has_tmp \in BOOLEAN :
          /\ t0 <= t
          /\ now = t
          /\ disk = [path |-> IF has_path THEN 1 ELSE 0,
                     tmp |-> IF has_tmp THEN 2 ELSE 0,
                     data |-> [i \in Inodes |->
                                 IF i = 1 /\ has_path
                                 THEN CachedResponse("u1", "old", Some("e1"), None, t0)
                                 ELSE IF i = 2 /\ has_tmp THEN PartialFile
                                 ELSE Missing]]

NextDisk ==
    \/ SaveCreate(NewEntry)
    \/ SaveWrite
    \/ SaveUnlink
    \/ SaveRename
    \/ LoadOpen
    \/ LoadRead

SpecDisk == InitDisk /\ [][NextDisk]_vars

\* <key>.json is absent or holds a complete entry of an earlier save, and
\* two calls save an entry for the same URL
InitRace ==
    /\ NoDownloadBut({"race"})
    /\ server = {}
    /\ HttpIdle
    /\ writers = [w \in Writers |-> NoWriter]
    /\ \E has_path \in BOOLEAN :
          rdisk = IF has_path
                  THEN [NoRaceDisk EXCEPT !.path = 1, !.data[1] = OldJson, !.free = 2]
                  ELSE NoRaceDisk

NextRace ==
    \E w \in Writers :
        \/ RaceCreate(w)
        \/ RaceWrite(w)
        \/ RaceExists(w)
        \/ RaceRemove(w)
        \/ RaceRename(w)

SpecRace == InitRace /\ [][NextRace]_vars

\* the headers of the responses: none of the four, a reset time only, a
\* remaining count without limit, and limits of 600 (threshold 60) and of 40
\* (threshold 40) with remaining counts above, at and below the threshold
TrackInputs ==
    {Headers(None, None, None, None),
     Headers(None, None, None, Some(1)),
     Headers(None, Some(10), None, None),
     Headers(Some(600), Some(61), Some(539), None),
     Headers(Some(600), Some(60), Some(540), None),
     Headers(Some(600), Some(30), Some(570), None),
     Headers(Some(40), Some(40), None, None)}

\* concurrent downloads share one tracker; each records the headers of its
\* responses
InitTrack ==
    /\ NoDownloadBut({"track"})
    /\ server = {}
    /\ HttpIdle
    /\ mutex = 0
    /\ callers = [c \in Callers |-> NoCaller]
    /\ recorded = <<>>

NextTrack ==
    \E c \in Callers :
        \/ \E h \in TrackInputs : TrackCall(c, h)
        \/ TrackLock(c)
        \/ TrackUpdate(c)

SpecTrack == InitTrack /\ [][NextTrack]_vars

MaxJobs == 3

\* the size of a task: unknown, small, or close to the largest u64
JobSizes == {None, Some(1), Some(U64Max - 1)}

\* a fan-out of up to MaxJobs tasks with --parallel 0, 1 and 2
InitProgress ==
    /\ NoCommand(1) \/ NoCommand(0) \/ NoCommand(MaxParallel)
    /\ PipelineIdle
    /\ UnitsIdleBut({"prog"})
    /\ tfile = Absent
    /\ NoEnumeration
    /\ server = {}
    /\ HttpIdle
    /\ progress = NoProgress
    /\ pmutex = 0
    /\ jobs \in UNION {[1..n -> {[pc |-> "idle", size |-> sz, seen |-> NoProgress] :
                                     sz \in JobSizes}] : n \in 1..MaxJobs}
    /\ fan_pc = "new"

NextProgress ==
    \/ ProgressNew
    \/ \E i \in DOMAIN jobs : JobStart(i)
    \/ \E i \in DOMAIN jobs : JobLogStart(i)
    \/ \E i \in DOMAIN jobs : JobFetch(i)
    \/ \E i \in DOMAIN jobs : JobLock(i)
    \/ \E i \in DOMAIN jobs : JobRecord(i)
    \/ FanFinish

SpecProgress == InitProgress /\ [][NextProgress]_vars

MaxGitRuns == 3

\* the branch with a second directory
GitBranch ==
    Branch \o << [path |-> <<"c">>, type |-> "Dir"],
                 [path |-> <<"c", "/", "z">>, type |-> "File"] >>

\* requests for the whole branch, for three of its directories and for a file
GitRequests ==
    {WholeRequest, TreeRequest, BlobRequest,
     [path |-> <<"a", "/", "d">>, has_trailing_slash |-> FALSE, kind |-> "Tree"],
     [path |-> <<"c">>, has_trailing_slash |-> FALSE, kind |-> "Tree"]}

\* up to MaxGitRuns runs of the VCS pipeline, one after the other, over a
\* cache directory that is empty at first
InitGitCache ==
    /\ NoDownloadBut({"gitc"})
    /\ server = {}
    /\ HttpIdle
    /\ git_repo = NoGitRepo
    /\ gpc = "idle"
    /\ gcall = NoGitCall
    /\ gdone = <<>>

NextGitCache ==
    \/ Len(gdone) < MaxGitRuns /\ \E req \in GitRequests : GitRepoPrepare(req)
    \/ GitSparseCheckout
    \/ GitCheckoutAndPlan(GitBranch)
    \/ GitCheckoutFails

SpecGitCache == InitGitCache /\ [][NextGitCache]_vars

\* the archive of an earlier run, and the archive the forge sends now
OldZip == <<"y1", "y2">>
NewZip == <<"z1", "z2", "z3">>

\* the forge answers the archive request with the archive, with rate-limit
\* headers or without, with a body that breaks off, or with 404
ZipServer ==
    {Response(200, None, None, None, None, None, None, None, NewZip, TRUE),
     Response(200, None, Some(60), Some(59), None, None, None, None, NewZip, TRUE),
     Response(200, None, None, None, None, None, None, None, NewZip, FALSE),
     Response(404, None, None, None, None, None, None, None, <<>>, TRUE)}

\* what earlier runs may have left in the repo cache: an archive or none, and
\* a temporary file or none
RepoCaches ==
    {[zip |-> z, tmp |-> t] : z \in {Absent, FileOf(OldZip)},
                              t \in {Absent, FileOf(<<"y1">>)}}

InitZip ==
    /\ NoDownloadBut({"zip"})
    /\ server = ZipServer
    /\ HttpIdle
    /\ repo_cache \in RepoCaches
    /\ zpc = "idle"
    /\ zcall = NoZipCall
    /\ zruns = 0

NextZipCache ==
    \/ \E nc \in BOOLEAN : ZipImplStart(nc)
    \/ DownloadZipFile

SpecZipCache == InitZip /\ [][NextZipCache]_vars

MaxSegs == 6

\* what may stand between two slashes of a URL: nothing, "..", and two
\* words, which also serve as names of owners, repositories, branches and files
SegWords == {<<>>, <<".", ".">>, TreeWord, BlobWord}

\* what may follow the path: nothing, a query, a fragment that ends in '/'
UrlTails == {<<>>, <<"?", "q">>, <<"#", "/">>}

\* the URLs of the command line: the path absent or made of up to MaxSegs
\* segments; one URL without scheme; one with another word for tree or blob
RawUrls ==
    {b \o (IF segs = <<>> THEN <<>> ELSE <<"/">> \o JoinSlash(segs)) \o t :
        b \in {UrlBase}, t \in UrlTails,
        segs \in UNION {[1..n -> SegWords] : n \in 0..MaxSegs}}
    \cup {<<"g", "/">> \o JoinSlash(<<<<"a">>, <<"a">>, TreeWord, <<"a">>, <<"a">>>>),
          UrlBase \o <<"/">> \o JoinSlash(<<<<"a">>, <<"a">>, <<"a">>, <<"a">>, <<"a">>>>)}

InitParse ==
    /\ NoDownload
    /\ server = {}
    /\ HttpIdle

NextParse == applied = NoApplication /\ \E raw \in RawUrls : CallParseGithubUrl(raw)

SpecParse == InitParse /\ [][NextParse]_vars

MaxDepth == 3

\* the paths a parsed URL or a listing can name: up to MaxDepth segments,
\* some of them empty, without slashes at the ends
LayoutPaths ==
    {TrimSlashes(JoinSlash(segs)) :
        segs \in UNION {[1..n -> {<<>>, <<"a">>, <<"b">>}] : n \in 0..MaxDepth}}

\* what the forge lists for a request: nothing, one file, one directory, or
\* two files
LayoutListings ==
    {<<>>}
    \cup {<<Item(q, <<"b">>, t)>> : q \in LayoutPaths \ {<<>>}, t \in {"File", "Dir"}}
    \cup {<<Item(<<"a", "/", "a">>, <<"a">>, "File"), Item(<<"a", "/", "b">>, <<"b">>, "File")>>}

InitLayout ==
    /\ NoDownload
    /\ server = {}
    /\ HttpIdle

NextLayout ==
    /\ applied = NoApplication
    /\ \E q \in LayoutPaths, slash \in BOOLEAN, kind \in {"Tree", "Blob"},
          cs \in LayoutListings :
          CallDeterminePaths([path |-> q, has_trailing_slash |-> slash, kind |-> kind], cs)

SpecLayout == InitLayout /\ [][NextLayout]_vars

\* the payload of the file at the forge, and its digest
Canonical == <<1, 2, 3>>
CanonicalSha == calculate_git_blob_sha1(Canonical)

\* what may be at the target before a download: nothing, a directory, an
\* empty file, a prefix of the payload, the payload, and files of other bytes
\* that are shorter, as long, and longer
Targets ==
    {Absent, Directory} \cup
    {FileOf(b) : b \in {<<>>, <<1>>, <<1, 2>>, Canonical, <<9>>, <<9, 9, 9>>, <<1, 2, 3, 4>>}}

\* the item as listed: the size known or not, the digest absent, that of the
\* payload, or another
Items ==
    {[size |-> sz, sha |-> sh] :
        sz \in {None, Some(Len(Canonical))},
        sh \in {None, Some(CanonicalSha), Some(calculate_git_blob_sha1(<<7>>))}}

\* the forge answers a download with the payload, with the rest of it from
\* byte 1 or 2 as 206, with other bytes, with a body that breaks off, with
\* 416, and with one rate-limit response
FileServer ==
    {Response(200, None, None, None, None, None, None, None, Canonical, TRUE),
     Response(200, None, None, None, None, None, None, None, <<1, 2, 9>>, TRUE),
     Response(200, None, None, None, None, None, None, None, Canonical, FALSE),
     Response(206, None, None, None, None, None, None, None, <<2, 3>>, TRUE),
     Response(206, None, None, None, None, None, None, None, <<3>>, TRUE),
     Response(416, None, None, None, None, None, None, None, <<>>, TRUE),
     Response(429, Some(1), None, None, None, None, None, None, <<>>, TRUE)}

InitFile ==
    /\ NoPipeline
    /\ tfile \in Targets
    /\ server = FileServer
    /\ NoEnumeration
    /\ HttpIdle

NextFile ==
    \/ \E item \in Items, no_cache \in BOOLEAN : FileStart(item, no_cache)
    \/ Attempt
    \/ FileFirstResponse
    \/ FileFreshResponse

SpecFile == InitFile /\ [][NextFile]_vars

\* a behaviour runs one of the three places that look at no_cache: the cached
\* wrapper, download_file, or the archive pipeline
InitNoCache == InitCache \/ InitFile \/ InitZip

\* which of the three the forge of this behaviour answers: only a download
\* is answered 206 or 416, only a listing comes with a validator
Serves ==
    IF \E r \in server : r.status = 416 THEN "file"
    ELSE IF \E r \in server : r.etag.some THEN "listing"
    ELSE "archive"

NextNoCache ==
    \/ Serves = "listing" /\ NextCache
    \/ Serves = "file" /\ NextFile
    \/ Serves = "archive" /\ NextZipCache

SpecNoCache == InitNoCache /\ [][NextNoCache]_vars

\* direct callers of send_github_request against that forge
InitHttp ==
    /\ NoDownload
    /\ server = RateLimited \cup Answers
    /\ HttpIdle

NextHttp ==
    \/ DirectStart("u1")
    \/ Attempt
    \/ CallDone
    \/ ClockSet

\* the runtime polls the future of a call until it returns
SpecHttp == InitHttp /\ [][NextHttp]_vars /\ WF_vars(Attempt)

----------------------------------------------------------------------------
(* Path safety (SpecPath) *)

HasUnsafe(path) == \E i \in 1..Len(path) : path[i].k \in {"ParentDir", "RootDir"}

\* the layout of the running pipeline is known
Planned == ppc \notin {"idle", "start"}

Collected == ppc \in {"collected", "gated", "done"}

SafeResult(r) == r.ok => (r.path # <<>> /\ AllNormal(r.path))

\* C1, as stated: for every item of the listing, relative_path fails or returns
\* a non-empty path of Normal components only, and every task's target_path is
\* a descendant of the output directory.
C1_AsStated ==
    Planned =>
        /\ \A k \in 1..Len(contents) :
              SafeResult(relative_path(base_path, contents[k]))
        /\ \A i \in 1..Len(tasks) :
              IsDescendant(tasks[i].target_path, output_dir)

UnsafeRemainder(k) == HasUnsafe(Remainder(base_path, contents[k]))

----------------------------------------------------------------------------
(* The response cache (SpecCache) *)

\* a cached call looked the cache up
LookedUp == call.kind = "cached" /\ call.looked

\* freshness as specified: now - stored <= TTL
Fresh(file, t) == IsEntry(file) /\ t - file.timestamp <= TtlSecs

\* C3, as stated: with caching enabled and a fresh entry for the url, the call
\* returns the cached body, sends no request and leaves the tracker alone; a
\* call with caching enabled sends no request before it looked the cache up.
C3_AsStated ==
    /\ (call.kind = "cached" /\ ~call.no_cache /\ sent > 0) => call.looked
    /\ (LookedUp /\ Fresh(call.found, call.at)) =>
          /\ hpc = "returned"
          /\ hres = HOk(call.found.body)
          /\ sent = 0
          /\ tracker = call.tracker0

\* C4, as stated: the load returns the entry last saved for the url if and
\* only if now - stored <= TTL.
C4_AsStated ==
    (LookedUp /\ IsEntry(call.found) /\ call.found = call.saved) =>
        ((call.loaded.some /\ call.loaded.v = call.saved)
            <=> (call.at - call.found.timestamp <= TtlSecs))

Expired(file, t) ==
    IsEntry(file) /\ file.timestamp <= t /\ t - file.timestamp > TtlSecs

\* C5: when the cache file of the url is missing, unparsable, unreadable or
\* expired, the load is a miss and never an error of the call: the call goes
\* on to its first request in the state a call without a cache file is in, it
\* cannot return without having sent a request, and an error it returns is
\* the error of the request or of reading the response.
C5_MissProceedsToNetwork ==
    (LookedUp /\ (call.found.kind \in {"missing", "corrupt", "unreadable"}
                  \/ Expired(call.found, call.at))) =>
        /\ ~call.loaded.panic
        /\ ~call.loaded.some
        /\ (call.found.kind # "unreadable" => call.loaded.ok)
        /\ hpc \in {"request", "responded", "returned"}
        /\ (hpc = "request" /\ sent = 0 =>
               attempt = 1 /\ tracker = call.tracker0 /\ hres = HNone)
        /\ (hpc \in {"responded", "returned"} => sent >= 1)
        /\ (hpc = "returned" /\ hres.state = "err" =>
               Display(hres.err) \in {"GitHub request failed", "failed with status",
                                      "failed to read response body"})

\* an expired entry was passed over, the request went out and its response
\* replaced the entry
C5_Witness ==
    /\ LookedUp
    /\ Expired(call.found, call.at)
    /\ hpc = "returned"
    /\ hres = HOk("b1")
    /\ sent = 1
    /\ cache[cache_key(call.url)].timestamp = now
    /\ IsEntry(cache[cache_key(call.url)])

----------------------------------------------------------------------------
(* The overwrite gate (SpecGate) *)

\* the gate evaluations of the pipeline that runs
RunGates == {i \in 1..Len(gate_log) : gate_log[i].run = Len(attempts)}

\* the places whose file differs from what the pipeline found at its start
Touched ==
    {k \in DOMAIN fs \cup DOMAIN fs0 :
        k \notin DOMAIN fs \/ k \notin DOMAIN fs0 \/ fs[k] # fs0[k]}

GateTargets(i) == {Norm(gate_log[i].targets[j]) : j \in 1..Len(gate_log[i].targets)}

\* C6: in each pipeline the gate is evaluated at most once, over the targets
\* of all tasks and on the files as the pipeline found them; no file is
\* touched before it, every file touched afterwards is one of the targets it
\* was evaluated over, and when it denies the pipeline fails with every file
\* as it was (none created, truncated, appended to or deleted).
C6_GateBeforeWrites ==
    /\ Cardinality(RunGates) <= 1
    /\ (ppc \in {"start", "listed", "collected"} => RunGates = {} /\ fs = fs0)
    /\ \A i \in RunGates :
          /\ gate_log[i].targets = collect_target_paths(tasks)
          /\ gate_log[i].fsys = fs0
          /\ (gate_log[i].res # "Ok" => ppc = "failed" /\ fs = fs0)
    /\ \A k \in Touched :
          \E i \in RunGates : gate_log[i].res = "Ok" /\ k \in GateTargets(i)

\* the archive pipeline was refused over two targets, one of which exists
C6_Witness ==
    /\ pipeline = "Zip"
    /\ Len(tasks) = 2
    /\ \E i \in RunGates :
          /\ gate_log[i].res = "RefusedOverwrite"
          /\ Len(gate_log[i].targets) = 2
    /\ ppc = "failed"
    /\ spc = "returned"
    /\ fs = fs0
    /\ Cardinality(DOMAIN fs) = 1

SomeTargetExists(g) ==
    \E j \in 1..Len(g.targets) : Norm(g.targets[j]) \in DOMAIN g.fsys

Interactive == tty.out /\ tty.in

\* C7: the gate returns Ok exactly when no target exists, or --force is set,
\* or stdout and stdin are terminals and the line read, trimmed and
\* lower-cased, is "y" or "yes"; it fails with RefusedOverwrite exactly when a
\* target exists, --force is unset and the session is not interactive, and
\* with Cancelled exactly when it is interactive and any other line was read
\* (when no line can be read there is no answer: the I/O error is returned).
C7_GateDecision ==
    \A i \in 1..Len(gate_log) :
        /\ (gate_log[i].res = "Ok") <=>
               \/ ~SomeTargetExists(gate_log[i])
               \/ force
               \/ (Interactive /\ answer \in YesLines)
        /\ (gate_log[i].res = "RefusedOverwrite") <=>
               (SomeTargetExists(gate_log[i]) /\ ~force /\ ~Interactive)
        /\ (gate_log[i].res = "Cancelled") <=>
               /\ SomeTargetExists(gate_log[i])
               /\ ~force
               /\ Interactive
               /\ answer \in NoLines \ {ReadFailed}
        /\ (gate_log[i].res = "IoError") <=>
               /\ SomeTargetExists(gate_log[i])
               /\ ~force
               /\ Interactive
               /\ answer = ReadFailed

\* the user answered " yes " to the prompt and the gate let the pipeline on
C7_Witness ==
    /\ gate_log # <<>>
    /\ SomeTargetExists(gate_log[1])
    /\ ~force
    /\ Interactive
    /\ answer = <<" ", "y", "e", "s", " ", "\r", "\n">>
    /\ gate_log[1].prompted
    /\ gate_log[1].res = "Ok"
    /\ ppc = "done"

----------------------------------------------------------------------------
(* The Auto chain (SpecAuto) *)

FixedOrder ==
    IF git_avail THEN <<"Git", "Zip", "Api">>
    ELSE IF request.path \in {<<>>, <<"/">>} THEN <<"Zip", "Api">>
    ELSE <<"Api", "Zip">>

AllErrors == Append(errs, perr)

AllFailed ==
    /\ strategy = "Auto"
    /\ spc = "returned"
    /\ ~result.ok

\* C9: when every strategy of the auto chain has failed, the returned error
\* is the error of the first-attempted strategy under one added context, so
\* its root cause is that of the first strategy's error, and the added
\* context mentions the message of the failure of each later strategy.
C9_FirstErrorIsRootCause ==
    AllFailed =>
        /\ Len(AllErrors) = Len(FixedOrder)
        /\ Tail(result.err) = AllErrors[1]
        /\ root_cause(result.err) = root_cause(AllErrors[1])
        /\ \A i \in 2..Len(AllErrors) :
              \E j \in 1..Len(Head(result.err).mentions) :
                 Head(result.err).mentions[j] = Display(AllErrors[i])

\* git failed to clone, the archive could not be fetched, the API refused to
\* overwrite: the clone failure is the root cause, the two others are named
C9_Witness ==
    /\ AllFailed
    /\ attempts = <<"Git", "Zip", "Api">>
    /\ root_cause(result.err) = E("GitError")
    /\ Head(result.err).mentions = <<"failed to download zip archive", "RefusedOverwrite">>

----------------------------------------------------------------------------
(* The retry loop of send_github_request (SpecHttp) *)

\* the loop returns a response with a success status, or 304 Not Modified
Accepted(e) == e.resp.status \in 200..299 \/ e.resp.status = 304

\* a response whose reset time backoff_duration cannot add to the epoch
Overflows(e) == ~Accepted(e) /\ backoff_panics(e.resp)

\* a rate-limit response: one the backoff policy gave a wait for
Retryable(e) == ~Accepted(e) /\ ~Overflows(e) /\ backoff_duration(e.resp, e.at).some

RECURSIVE SumWaits(_)
SumWaits(es) ==
    IF es = <<>> THEN 0
    ELSE backoff_duration(Head(es).resp, Head(es).at).v + SumWaits(Tail(es))

Mentions(err, text) ==
    \E j \in 1..Len(Head(err).mentions) : Head(err).mentions[j] = text

\* the text of a response an error is to contain: its body as sent, or its
\* body when it can be read and the text put in its place when it cannot
BodyOrPlaceholder(r, as_sent) ==
    IF as_sent \/ r.readable THEN r.body ELSE "<unable to read response body>"

\* what a call has done so far and what it returns
RequestContract(as_sent) ==
    hpc \in {"request", "returned", "panicked"} =>
        /\ sent <= MAX_ATTEMPTS
        /\ Len(received) <= sent
        /\ sent <= Len(received) + 1
        /\ \A i \in 1..(Len(received) - 1) : Retryable(received[i])
        /\ hpc = "request" =>
              /\ Len(received) = sent
              /\ \A i \in 1..Len(received) : Retryable(received[i])
              /\ slept = SumWaits(received)
              /\ sres = SNone
        /\ hpc = "panicked" =>
              /\ Len(received) = sent
              /\ Overflows(Last(received))
              /\ slept = SumWaits(Front(received))
              /\ sres = SNone
        /\ hpc = "returned" =>
              IF sent > Len(received)
              THEN \* the last request failed in transport
                   /\ sres.state = "err"
                   /\ root_cause(sres.err) = E("transport error")
                   /\ \A i \in 1..Len(received) : Retryable(received[i])
                   /\ slept = SumWaits(received)
              ELSE /\ slept = SumWaits(Front(received))
                   /\ IF Accepted(Last(received))
                      THEN sres = SOk(Last(received).resp)
                      ELSE IF Retryable(Last(received))
                      THEN /\ sent = MAX_ATTEMPTS
                           /\ sres.state = "err"
                           /\ Mentions(sres.err, BodyOrPlaceholder(Last(received).resp, as_sent))
                      ELSE sres.state = "err"

----------------------------------------------------------------------------
(* The backoff policy (SpecBackoff) *)

BackoffCalled == applied.fn = "backoff_duration"

\* a 403 the quota explains: remaining is 0, or the header is missing
QuotaForbidden(h) == h.status = 403 /\ (~h.remaining.some \/ h.remaining.v = 0)

\* C12 as stated: for a 403 with remaining == 0 or with the remaining header
\* missing, backoff_duration returns Retry-After when it is present, and
\* otherwise reset_epoch - now + 1 s when reset_epoch is in the future.
C12_AsStated ==
    (BackoffCalled /\ QuotaForbidden(applied.arg)) =>
        LET h == applied.arg IN
        /\ h.retry_after.some => applied.out = Returned(h.retry_after)
        /\ (~h.retry_after.some /\ h.reset.some /\ h.reset.v > applied.at) =>
              applied.out = Returned(Some(h.reset.v - applied.at + 1))

\* what the code does for a 403 with remaining == 0
C12_ZeroRemaining ==
    (BackoffCalled /\ applied.arg.status = 403 /\ applied.arg.remaining = Some(0)) =>
        LET h == applied.arg IN
        /\ h.retry_after.some => applied.out = Returned(h.retry_after)
        /\ (~h.retry_after.some /\ h.reset.some /\ h.reset.v > applied.at
              /\ h.reset.v <= TimeMax) =>
              applied.out = Returned(Some(h.reset.v - applied.at + 1))

\* what the code does for a 403 without the remaining header: no backoff
C12_MissingRemaining ==
    (BackoffCalled /\ applied.arg.status = 403 /\ ~applied.arg.remaining.some) =>
        applied.out = Returned(None)

\* C13: backoff_duration returns exactly n seconds for a 429 with
\* Retry-After: n, whatever the rate-limit headers say, and returns no backoff
\* for a 403 with remaining > 0 and for every status other than 429 and 403.
C13_BackoffByStatus ==
    BackoffCalled =>
        LET h == applied.arg IN
        /\ (h.status = 429 /\ h.retry_after.some) =>
              applied.out = Returned(Some(h.retry_after.v))
        /\ (h.status = 403 /\ h.remaining.some /\ h.remaining.v > 0) =>
              applied.out = Returned(None)
        /\ h.status \notin {429, 403} => applied.out = Returned(None)

\* a 429 with Retry-After: 2 whose other headers say the quota is not used up
\* and whose reset time is past the clock's last second
C13_Witness ==
    /\ BackoffCalled
    /\ applied.arg.status = 429
    /\ applied.arg.retry_after = Some(2)
    /\ applied.arg.remaining = Some(3)
    /\ applied.arg.reset = Some(U64Max)
    /\ applied.at > 0
    /\ applied.out = Returned(Some(2))

----------------------------------------------------------------------------
(* Success after backoff (SpecHttp) *)

\* a response carries a snapshot when it has any of the four quota headers
CarriesSnapshot(r) == r.limit.some \/ r.remaining.some \/ r.used.some \/ r.reset.some

SnapshotOf(r) ==
    [limit |-> r.limit, remaining |-> r.remaining, used |-> r.used,
     reset_epoch |-> r.reset]

\* the snapshot a tracker holds after the responses es, recorded in order
RECURSIVE LastSnapshotAfter(_, _)
LastSnapshotAfter(snap, es) ==
    IF es = <<>> THEN snap
    ELSE LastSnapshotAfter(IF CarriesSnapshot(Head(es).resp)
                           THEN Some(SnapshotOf(Head(es).resp)) ELSE snap,
                           Tail(es))

\* the remaining values seen: the one held before, and those of the responses
RemainingSeen(before, es) ==
    (IF before.some THEN {before.v} ELSE {})
    \cup {es[i].resp.remaining.v : i \in {j \in 1..Len(es) : es[j].resp.remaining.some}}

----------------------------------------------------------------------------
(* Resume of a partial download (SpecFile) *)

\* download_file got past its look at the target
Probed == dpc # "idle" /\ ~(dres.state = "err" /\ Display(dres.err) = "failed to check for partial download")

\* the target held, when the call began, a proper non-empty prefix of the
\* payload, and the item gives the size of the payload
PartialPrefix ==
    /\ dcall.before.kind = "file"
    /\ dcall.item.size = Some(Len(Canonical))
    /\ 0 < Len(dcall.before.bytes)
    /\ Len(dcall.before.bytes) < Len(Canonical)
    /\ IsPrefixOf(dcall.before.bytes, Canonical)

\* the rest of the payload from byte s on
Rest(s) == SubSeq(Canonical, s + 1, Len(Canonical))

\* the forge answered the request with Range as the protocol has it: 206 with
\* the rest of the payload, or 200 and then the payload on the request without
HonestAnswers ==
    \/ dcall.ranged.status = 206 /\ dcall.ranged.body = Rest(dcall.start)
    \/ /\ dcall.ranged.status = 200
       /\ dcall.fresh.status = 200
       /\ dcall.fresh.body = Canonical

\* what a resumed download does
ResumeContract ==
    /\ dcall.handle
    /\ dcall.start = Len(dcall.before.bytes)
    /\ dcall.ranged.status = 206 =>
          /\ dcall.fresh = NoResponse
          /\ dcall.written.some => dcall.written.v = dcall.before.bytes \o dcall.ranged.body
    /\ dcall.ranged.status = 200 =>
          /\ dpc = "fresh" => tfile = Absent
          /\ dcall.written.some => dcall.written.v = dcall.fresh.body
    /\ (dres = DOk /\ HonestAnswers) => tfile = FileOf(Canonical)

\* C14 as stated: whenever the target holds a partial file of size s with
\* 0 < s < expected that is a prefix of the payload, download_file sends
\* Range: bytes=s-, appends on 206, rewrites on 200, and ends with the payload.
C14_AsStated == (Probed /\ PartialPrefix) => ResumeContract

\* C14: with no_cache not set, a partial file of size s with 0 < s < expected
\* that is a prefix of the payload makes download_file send Range: bytes=s-;
\* the body of a 206 is appended; on 200 the partial is discarded and the body
\* of the request sent again is written from byte 0; when the forge answers
\* with the bytes of the payload the final file is the payload.  With
\* no_cache set no Range is sent and the body is written from byte 0.
C14_ResumeCorrect ==
    (Probed /\ PartialPrefix) =>
        IF dcall.no_cache
        THEN /\ dcall.start = 0
             /\ ~dcall.handle
             /\ dcall.fresh = NoResponse
             /\ dcall.written.some => dcall.written.v = dcall.ranged.body
             /\ (dres = DOk /\ dcall.ranged.body = Canonical) => tfile = FileOf(Canonical)
        ELSE ResumeContract

\* the file holds byte 1 of 3, the forge answers 206 with bytes 2 and 3, and
\* the file that passes the hash check is the payload
C14_Witness ==
    /\ dpc = "returned"
    /\ ~dcall.no_cache
    /\ dcall.before = FileOf(<<1>>)
    /\ dcall.start = 1
    /\ dcall.ranged.status = 206
    /\ dcall.ranged.body = <<2, 3>>
    /\ dcall.item.sha = Some(CanonicalSha)
    /\ dres = DOk
    /\ tfile = FileOf(Canonical)

\* the same file, and a forge that answers the request with Range with 200
C14_RewriteReached ==
    /\ dpc = "returned"
    /\ dcall.before = FileOf(<<1, 2>>)
    /\ dcall.start = 2
    /\ dcall.ranged.status = 200
    /\ dcall.fresh.status = 200
    /\ dres = DOk
    /\ tfile = FileOf(Canonical)

----------------------------------------------------------------------------
(* A resume the forge does not honour (SpecFile) *)

\* the call sent its first request with Range, and that request was answered
\* with something other than 206 Partial Content
ResumeRefused ==
    /\ dcall.start > 0
    /\ dcall.answered.some
    /\ dcall.answered.v.status # 206

\* C15 as stated: when a request with Range was answered with anything other
\* than 206 - a non-success status such as 416 included - download_file has
\* deleted the partial file, sent the request again without Range, and writes
\* the target from byte 0.
C15_AsStated ==
    (dpc \in {"fresh", "returned"} /\ ResumeRefused) =>
        /\ dcall.rerequested
        /\ dpc = "fresh" => tfile = Absent
        /\ dcall.written.some => dcall.written.v = dcall.fresh.body

\* what the code does: the request is sent again only after a response the
\* wrapper returns (a success status other than 206, or 304); after any other
\* answer download_file returns the wrapper's error and the partial file stays
C15_RefusedByStatus ==
    (dpc \in {"fresh", "returned"} /\ ResumeRefused) =>
        IF IsSuccess(dcall.answered.v.status) \/ dcall.answered.v.status = 304
        THEN /\ dcall.rerequested
             /\ dpc = "fresh" => tfile = Absent
             /\ dcall.written.some => dcall.written.v = dcall.fresh.body
        ELSE /\ ~dcall.rerequested
             /\ dpc = "returned"
             /\ dres.state = "err"
             /\ Display(dres.err) = "failed to download"
             /\ tfile = dcall.before

\* a request with Range answered 416: the error is returned, the file stays
C15_RangeNotSatisfiable ==
    /\ dpc = "returned"
    /\ dcall.start > 0
    /\ dcall.answered.some
    /\ dcall.answered.v.status = 416
    /\ ~dcall.rerequested
    /\ tfile = dcall.before

----------------------------------------------------------------------------
(* Hash verification (SpecFile) *)

\* the body was written to its end, and the digest of the file differs from
\* the one the item carries
DigestDiffers ==
    /\ dcall.item.sha.some
    /\ dcall.written.some
    /\ calculate_git_blob_sha1(dcall.written.v) # dcall.item.sha.v

\* C16: when the item carries a content hash and the git-blob SHA-1 of the
\* final file differs from it, download_file has failed with the hash
\* verification error and nothing is at the target path, whether the file was
\* written from byte 0 or appended to.
C16_CorruptPayloadRemoved ==
    DigestDiffers =>
        /\ dpc = "returned"
        /\ dres = DErr(<<E("Hash verification failed")>>)
        /\ tfile = Absent

\* a file of another byte is resumed: the forge answers 206 with the rest of
\* the payload, and the appended file does not have the digest of the payload
C16_Witness ==
    /\ DigestDiffers
    /\ dcall.before = FileOf(<<9>>)
    /\ dcall.start = 1
    /\ dcall.ranged.status = 206
    /\ dcall.written = Some(<<9, 2, 3>>)
    /\ dcall.item.sha = Some(CanonicalSha)
    /\ dres.state = "err"
    /\ tfile = Absent

\* the same for a download written from byte 0
C16_FreshReached ==
    /\ DigestDiffers
    /\ dcall.before = Absent
    /\ dcall.written = Some(<<1, 2, 9>>)
    /\ dres.state = "err"
    /\ tfile = Absent

----------------------------------------------------------------------------
(* The download fan-out (SpecFan) *)

Started(i) == i <= Len(tasks) /\ dl[i] # "idle"

AllStarted == \A i \in 1..Len(tasks) : Started(i)

\* C17: with parallel = N and more than N download tasks, at most max(N, 1)
\* downloads are in flight at any instant, tasks start in the order of the
\* list, and once the downloads begin every task is started unless a task
\* has failed before.
C17_BoundedFanOut ==
    /\ [](Cardinality(InFlight) <= (IF parallel > 1 THEN parallel ELSE 1))
    /\ [](\A i \in 1..Len(tasks) : Started(i) <=> i < next_task)
    /\ (ppc = "gated") ~> (ppc = "failed" \/ AllStarted)

\* four tasks and --parallel 2: two downloads in flight, the third waits
C17_Witness ==
    /\ ppc = "gated"
    /\ parallel = 2
    /\ Len(tasks) = 4
    /\ Cardinality(InFlight) = 2
    /\ dl[3] = "idle"

----------------------------------------------------------------------------
(* The listing fan-out (SpecListing) *)

\* C18 as stated: during the enumeration of a directory tree the number of
\* directory-listing requests in flight never exceeds parallel (at least 1),
\* for the request as a whole.
C18_AsStated == Cardinality(Fetching) <= (IF parallel > 1 THEN parallel ELSE 1)

\* what the code bounds: the futures polled and not completed of each level
C18_BoundedPerLevel ==
    \A d \in Dirs : Cardinality(ActiveIn(d)) <= (IF parallel > 1 THEN parallel ELSE 1)

\* --parallel 2: the listings of d2 and of both sub-directories of d1 are
\* requested at the same time
C18_ThreeInFlight ==
    /\ parallel = 2
    /\ Fetching = {"d2", "d1/a", "d1/b"}

----------------------------------------------------------------------------
(* The first download failure (SpecFan) *)

\* what the file system holds at the target of task j
AtTarget(fsys, j) ==
    IF Exists(fsys, tasks[j].target_path) THEN fsys[Norm(tasks[j].target_path)]
    ELSE "none"

\* the step in which a download fails
DownloadFails == ppc = "gated" /\ ppc' = "failed"

\* C19: the first download failure stops the pipeline: the error of that
\* download is what the pipeline and download_github_path return, no task is
\* started or moved afterwards, the files of completed tasks stay as written,
\* and the partial file of a sibling that was in flight stays in place.
C19_FirstFailureStops ==
    /\ [](perr # <<>> => ppc = "failed")
    /\ [](ppc \in {"gated", "failed", "done"} =>
            \A j \in 1..Len(tasks) :
                /\ dl[j] = "done" => AtTarget(fs, j) = "new"
                /\ (dl[j] = "streaming" /\ ppc = "gated") => AtTarget(fs, j) = "partial")
    /\ [][/\ DownloadFails =>
               /\ perr' # <<>>
               /\ dl' = dl
               /\ next_task' = next_task
               /\ \E i \in InFlight :
                     \A j \in 1..Len(tasks) : j # i => AtTarget(fs', j) = AtTarget(fs, j)
          /\ ppc = "failed" =>
               /\ ppc' = "failed"
               /\ perr' = perr
               /\ dl' = dl
               /\ next_task' = next_task
               /\ fs' = fs
          /\ (ppc = "failed" /\ spc # "returned" /\ spc' = "returned") =>
               result' = [ok |-> FALSE, err |-> perr]]_vars

\* the third of four downloads fails on its request while the first is
\* complete, the second is streaming and the fourth has not started; the
\* error is returned and the files of the first two are as they were
C19_Witness ==
    /\ spc = "returned"
    /\ ppc = "failed"
    /\ result = [ok |-> FALSE, err |-> <<E("failed to download"), E("RemoteError")>>]
    /\ Len(tasks) = 4
    /\ dl = <<"done", "streaming", "requesting", "idle">>
    /\ next_task = 4
    /\ AtTarget(fs, 1) = "new"
    /\ AtTarget(fs, 2) = "partial"
    /\ AtTarget(fs, 4) = "none"

----------------------------------------------------------------------------
(* Cache writes and concurrent readers (SpecDisk) *)

\* the complete entry <key>.json held before the save
IsPrevious(c) == IsEntry(c) /\ c.url = "u1" /\ c.body = "old" /\ c.etag = Some("e1")

\* the complete entry the save writes
IsSaved(c) == saver.pc # "idle" /\ IsEntry(c) /\ c = saver.entry

\* C20: <key>.json never holds a partially written entry, and a load that runs
\* while one save of the same key runs observes no entry, the previous
\* complete entry or the new complete entry; it does not panic, and what the
\* HTTP wrapper goes on with is no entry or the fresh entry observed, never
\* an error.  (The clock is not behind the timestamp of an entry.)
C20_AtomicForReaders ==
    /\ disk.path # 0 => IsEntry(disk.data[disk.path])
    /\ loader.pc = "done" =>
          /\ \/ loader.observed = Missing
             \/ IsPrevious(loader.observed)
             \/ IsSaved(loader.observed)
          /\ ~loader.out.panic
          /\ \/ Looked(loader.out) = None
             \/ /\ Looked(loader.out) = Some(loader.observed)
                /\ IsEntry(loader.observed)
                /\ now - loader.observed.timestamp <= TtlSecs

\* the load opened <key>.json before the save removed it and read it after
\* the rename: it has the previous entry, the file has the new one
C20_Witness ==
    /\ saver.pc = "saved"
    /\ IsSaved(disk.data[disk.path])
    /\ loader.pc = "done"
    /\ loader.ino # disk.path
    /\ IsPrevious(loader.observed)
    /\ Looked(loader.out) = Some(loader.observed)

\* the load opened <key>.json between the removal and the rename
C20_NoEntryReached ==
    /\ saver.pc = "saved"
    /\ IsSaved(disk.data[disk.path])
    /\ loader.pc = "done"
    /\ loader.ino = 0
    /\ loader.out = LoadNone

----------------------------------------------------------------------------
(* Two saves of one cache key (SpecRace) *)

RaceOver == \A w \in Writers : writers[w].pc \in {"saved", "failed"}

\* what is at <key>.json: the bytes, or None when there is no such file
AtPath == IF rdisk.path = 0 THEN None ELSE Some(rdisk.data[rdisk.path])

\* C21 as stated: when two save_cached_response calls race on the same key,
\* under every interleaving of their steps the file finally at <key>.json is
\* a complete entry equal to the one written by one of the two calls; it is
\* never missing, truncated or mixed.
C21_AsStated ==
    RaceOver => (AtPath.some /\ AtPath.v \in {Json(w) : w \in Writers})

\* both calls are over and there is no <key>.json: one call renamed the
\* shared temporary file, the other removed <key>.json and found no temporary
\* file to rename
C21_Missing ==
    /\ RaceOver
    /\ AtPath = None
    /\ \E w \in Writers : writers[w].pc = "saved"

\* both calls are over and <key>.json begins with the text of one entry and
\* ends with the text of the other
C21_Mixed ==
    /\ RaceOver
    /\ AtPath = Some(<<"b1", "b2", "a3">>)

\* what the code does ensure: a call that ran while the other did nothing
\* leaves its complete entry at <key>.json
C21_AloneIsComplete ==
    \A w \in Writers :
        (writers[w].pc = "saved" /\ \A v \in Writers \ {w} : writers[v].pc = "idle")
            => AtPath = Some(Json(w))

----------------------------------------------------------------------------
(* Concurrent record_headers (SpecTrack) *)

\* the remaining counts of the snapshots recorded so far
RemainingRecorded ==
    {recorded[i].snapshot.remaining.v :
        i \in {j \in 1..Len(recorded) : recorded[j].snapshot.remaining.some}}

\* when no call holds the state: lowest_remaining is the least remaining count
\* recorded, and last_snapshot is the snapshot of the call that locked last
TrackerAgrees ==
    mutex = 0 =>
        /\ IF RemainingRecorded = {}
           THEN tracker.lowest_remaining = None
           ELSE /\ tracker.lowest_remaining.some
                /\ tracker.lowest_remaining.v \in RemainingRecorded
                /\ \A v \in RemainingRecorded : tracker.lowest_remaining.v <= v
        /\ tracker.last_snapshot =
              (IF recorded = <<>> THEN None
               ELSE Some(recorded[Len(recorded)].snapshot))

\* a step keeps lowest_remaining or lowers it
LowestNeverIncreases ==
    tracker.lowest_remaining.some =>
        /\ tracker'.lowest_remaining.some
        /\ tracker'.lowest_remaining.v <= tracker.lowest_remaining.v

\* a call whose response has none of the four headers returns None and leaves
\* the tracker as it is
HeaderlessIsIgnored ==
    \A c \in Callers :
        (callers'[c] # callers[c] /\ callers'[c].pc = "returned"
            /\ ~callers'[c].snapshot.some)
        => (tracker' = tracker /\ recorded' = recorded /\ callers'[c].ret = None)

\* C22: after any sequence and interleaving of concurrent record_headers
\* calls, lowest_remaining is the minimum of the remaining counts recorded so
\* far (absent if none carried one) and never increases, last_snapshot is the
\* snapshot of the call that took the mutex last, and a response with none of
\* the four rate-limit headers leaves the tracker unchanged.
C22_TrackerLinearizable ==
    /\ []TrackerAgrees
    /\ [][LowestNeverIncreases /\ HeaderlessIsIgnored]_vars

\* three calls by two callers: one without headers, and two that recorded 30
\* and then 61
C22_Witness ==
    /\ mutex = 0
    /\ callers[1].calls + callers[2].calls = 3
    /\ \E c \in Callers : callers[c].pc = "returned" /\ ~callers[c].snapshot.some
    /\ Len(recorded) = 2
    /\ recorded[1].snapshot.remaining = Some(30)
    /\ recorded[2].snapshot.remaining = Some(61)
    /\ tracker.lowest_remaining = Some(30)
    /\ tracker.last_snapshot.v.remaining = Some(61)

----------------------------------------------------------------------------
(* The low-quota warning (SpecTrack) *)

\* ceil(limit * 0.10)
TenthUp(limit) == CHOOSE k \in 0..limit : 10 * k >= limit /\ 10 * k < limit + 10

\* clamp(ceil(limit * 0.10), 50, limit)
ClampedThreshold(limit) == Min(Max(TenthUp(limit), 50), limit)

\* the remaining counts that were warned about, in the order of the calls
Warned == SelectSeq(recorded, LAMBDA r : r.warn_low)

\* C23: record_headers signals a low-quota warning exactly when limit and
\* remaining are both present, remaining <= clamp(ceil(limit * 0.10), 50,
\* limit), and remaining is strictly below the previously warned value (or
\* nothing was warned before); it then stores remaining as the warned value,
\* so the same remaining never warns twice and the warned values are strictly
\* decreasing.
C23_WarnsOncePerLevel ==
    /\ \A c \in Callers :
          (callers[c].pc = "returned" /\ callers[c].snapshot.some) =>
              LET snap == callers[c].snapshot.v
                  before == callers[c].seen.last_warned_remaining
              IN  callers[c].ret.v.warn_low <=>
                      /\ snap.limit.some
                      /\ snap.remaining.some
                      /\ snap.remaining.v <= ClampedThreshold(snap.limit.v)
                      /\ (before.some => snap.remaining.v < before.v)
    /\ mutex = 0 =>
          /\ tracker.last_warned_remaining =
                (IF Warned = <<>> THEN None
                 ELSE Warned[Len(Warned)].snapshot.remaining)
          /\ \A i, j \in 1..Len(Warned) :
                i < j => Warned[i].snapshot.remaining.v > Warned[j].snapshot.remaining.v

\* 60 of 600 warns, 60 again does not, 30 warns
C23_Witness ==
    /\ mutex = 0
    /\ Len(recorded) = 3
    /\ recorded[1].snapshot.remaining = Some(60) /\ recorded[1].warn_low
    /\ recorded[2].snapshot.remaining = Some(60) /\ ~recorded[2].warn_low
    /\ recorded[3].snapshot.remaining = Some(30) /\ recorded[3].warn_low
    /\ tracker.last_warned_remaining = Some(30)

----------------------------------------------------------------------------
(* The cached archive (SpecZipCache) *)

\* an archive as the forge sent it, to its last byte
CompleteArchives == {FileOf(OldZip)} \cup {FileOf(r.body) : r \in {q \in server : IsSuccess(q.status)}}

\* C27: the cached archive path <owner>-<repo>-<hash8>.zip only ever holds a
\* completely downloaded archive: the body is streamed to a temporary file
\* and renamed on success, so a download that fails on the HTTP status or
\* breaks off mid-stream leaves no file at the final path that was not there,
\* and a later run with caching enabled never reuses a truncated archive.
C27_OnlyCompleteArchives ==
    /\ repo_cache.zip \in {Absent} \cup CompleteArchives
    /\ zpc = "failed" => repo_cache.zip = zcall.found
    /\ zcall.reused => (zcall.opened.some /\ zcall.opened.v \in CompleteArchives)

\* the second run, with caching enabled, found no archive, downloaded it and
\* renamed the temporary file to the final path
C27_DownloadedReached ==
    /\ zruns = 2
    /\ zpc = "extracting"
    /\ ~zcall.no_cache
    /\ zcall.found = Absent
    /\ zcall.requested
    /\ repo_cache.tmp = Absent
    /\ repo_cache.zip = FileOf(NewZip)

\* the download broke off after the first chunk: the bytes received are in
\* the temporary file and nothing is at the final path
C27_Witness ==
    /\ zpc = "failed"
    /\ zcall.answer.status = 200
    /\ repo_cache.tmp = FileOf(<<"z1">>)
    /\ repo_cache.zip = Absent

\* an archive of an earlier run is reused
C27_ReuseReached ==
    /\ zpc = "extracting"
    /\ zcall.reused
    /\ ~zcall.requested
    /\ zcall.opened = Some(FileOf(OldZip))

----------------------------------------------------------------------------
(* no_cache (SpecNoCache) *)

\* the cached wrapper with no_cache: the entry of the URL is not looked up,
\* stays as it was, and a body is returned only after a request was sent
WrapperBypasses ==
    (call.kind = "cached" /\ call.no_cache) =>
        /\ ~call.looked
        /\ call.loaded = LoadNone
        /\ cache[cache_key(call.url)] = call.found
        /\ last_saved[call.url] = call.saved
        /\ (hpc = "returned" /\ hres.state = "ok") => sent >= 1

\* download_file with no_cache: the call never fails on the look at the
\* target, opens no file for append, sends no Range, sends its request once,
\* and the file it wrote holds the body of the response and nothing before it
FileFromByteZero ==
    (dpc # "idle" /\ dcall.no_cache) =>
        /\ Probed
        /\ dcall.start = 0
        /\ ~dcall.handle
        /\ ~dcall.rerequested
        /\ dcall.written.some => dcall.written.v = dcall.ranged.body

\* the archive pipeline with no_cache: an archive in the repo cache is not
\* opened; the archive opened is the one this run downloaded
ArchiveDownloadedAgain ==
    (zpc # "idle" /\ zcall.no_cache) =>
        /\ ~zcall.reused
        /\ zpc = "extracting" =>
              /\ zcall.requested
              /\ zcall.opened = Some(FileOf(zcall.answer.body))

C24_WrapperReached ==
    /\ call.kind = "cached"
    /\ call.no_cache
    /\ hpc = "returned"
    /\ hres.state = "ok"
    /\ IsEntry(call.found)
    /\ call.found.timestamp = now
    /\ sres.resp.etag.some

\* with no_cache, a target that held the first two bytes of the payload was
\* written anew with the body of a response to a request without Range
C24_FileReached ==
    /\ dpc = "returned"
    /\ dcall.no_cache
    /\ dcall.before = FileOf(<<1, 2>>)
    /\ dcall.item.size = Some(Len(Canonical))
    /\ dres = DOk
    /\ tfile = FileOf(Canonical)

----------------------------------------------------------------------------
(* URL parsing (SpecParse) *)

Parsed == applied.fn = "parse_github_url"

\* the segments of the path of the URL, none when the text is not a URL
PathOfUrl == path_segments(applied.arg)

\* p is s without the slashes at its ends
StrippedOf(p, s) ==
    /\ p = <<>> \/ (Head(p) # "/" /\ Last(p) # "/")
    /\ \E i \in 0..Len(s) :
          /\ SubSeq(s, i + 1, i + Len(p)) = p
          /\ i + Len(p) <= Len(s)
          /\ \A k \in (1..i) \cup ((i + Len(p) + 1)..Len(s)) : s[k] = "/"

\* C25: parse_github_url succeeds exactly when the URL path has at least
\* five segments and the segment after owner and repo is 'tree' or 'blob';
\* on success owner, repo and branch are the corresponding segments, path is
\* the remaining segments joined by '/' with leading and trailing slashes
\* stripped, has_trailing_slash is true iff the raw URL ends with '/', and
\* kind is Tree or Blob except that a Blob with empty path is promoted to
\* Tree; otherwise it fails.
C25_ParseContract ==
    Parsed =>
        LET out == applied.out.value
            S == PathOfUrl.v
        IN  /\ ~applied.out.panic
            /\ out.ok <=> (PathOfUrl.some /\ Len(S) >= 5 /\ S[3] \in {TreeWord, BlobWord})
            /\ out.ok =>
                  /\ out.info.owner = S[1]
                  /\ out.info.repo = S[2]
                  /\ out.info.branch = S[4]
                  /\ StrippedOf(out.info.path, JoinSlash(SubSeq(S, 5, Len(S))))
                  /\ out.info.has_trailing_slash <=> Last(applied.arg) = "/"
                  /\ out.info.kind = (IF S[3] = BlobWord /\ out.info.path # <<>>
                                      THEN "Blob" ELSE "Tree")

\* h://g/tree/blob/tree/blob/tree/ parses to a Tree of path tree with a
\* trailing slash
C25_Witness ==
    /\ Parsed
    /\ applied.arg = UrlBase \o <<"/">>
                        \o JoinSlash(<<TreeWord, BlobWord, TreeWord, BlobWord, TreeWord, <<>>>>)
    /\ applied.out.value.ok
    /\ applied.out.value.info =
          [owner |-> TreeWord, repo |-> BlobWord, branch |-> BlobWord,
           path |-> TreeWord, has_trailing_slash |-> TRUE, kind |-> "Tree"]

\* h://g/tree/tree/blob/tree/ parses to a Tree of the empty path
C25_BlobRootReached ==
    /\ Parsed
    /\ applied.arg = UrlBase \o <<"/">>
                        \o JoinSlash(<<TreeWord, TreeWord, BlobWord, TreeWord, <<>>>>)
    /\ applied.out.value.ok
    /\ applied.out.value.info.kind = "Tree"
    /\ applied.out.value.info.path = <<>>

\* h://g/tree/tree/tree/tree, without a slash at its end, has four segments
\* and fails
C25_BranchOnlyFails ==
    /\ Parsed
    /\ applied.arg = UrlBase \o <<"/">> \o JoinSlash(<<TreeWord, TreeWord, TreeWord, TreeWord>>)
    /\ ~applied.out.value.ok

\* h://g/tree/tree/blob/tree/blob/.. names the root through "..": the URL
\* parser leaves tree/tree/blob/tree and an empty segment
C25_DotDotReached ==
    /\ Parsed
    /\ applied.arg = UrlBase \o <<"/">>
                        \o JoinSlash(<<TreeWord, TreeWord, BlobWord, TreeWord, BlobWord, <<".", ".">>>>)
    /\ applied.out.value.ok
    /\ applied.out.value.info.path = <<>>
    /\ applied.out.value.info.kind = "Tree"
    /\ ~applied.out.value.info.has_trailing_slash

----------------------------------------------------------------------------
(* The layout planner (SpecLayout) *)

Planned26 == applied.fn = "determine_paths"

\* the names between the slashes of a path
RECURSIVE NamesOf(_)
NamesOf(segs) ==
    IF segs = <<>> THEN <<>>
    ELSE (IF Head(segs) = <<>> THEN <<>> ELSE <<Normal(Head(segs))>>) \o NamesOf(Tail(segs))

PathNames(s) == NamesOf(Segs(s, <<>>, <<>>))

\* C26: for a single-file request (the listing is exactly one File) the layout
\* planner returns base_path = the parent of the file's forge path and default
\* output "."; for a directory request, base_path = the trimmed request path
\* and default output "." when the path is the root or the URL had a trailing
\* slash, else the last component of the path.
C26_LayoutPlan ==
    Planned26 =>
        LET req == applied.arg.request
            cs == applied.arg.contents
            out == applied.out.value
            single == Len(cs) = 1 /\ cs[1].type = "File"
            names == PathNames(req.path)
        IN  /\ ~applied.out.panic
            /\ single => /\ out.base = Front(PathNames(cs[1].path))
                         /\ out.default_output = <<CurDir>>
            /\ ~single => /\ out.base = names
                          /\ out.default_output =
                                (IF names = <<>> \/ req.has_trailing_slash THEN <<CurDir>>
                                 ELSE <<names[Len(names)]>>)

\* .../tree/main/a/b without trailing slash, listing two files: base a/b,
\* default output b
C26_Witness ==
    /\ Planned26
    /\ applied.arg.request = [path |-> <<"a", "/", "b">>, has_trailing_slash |-> FALSE,
                              kind |-> "Tree"]
    /\ Len(applied.arg.contents) = 2
    /\ applied.out.value = [base |-> <<Normal(<<"a">>), Normal(<<"b">>)>>,
                            default_output |-> <<Normal(<<"b">>)>>]

\* .../tree/main/a/b/ with trailing slash: default output "."
C26_TrailingSlashReached ==
    /\ Planned26
    /\ applied.arg.request = [path |-> <<"a", "/", "b">>, has_trailing_slash |-> TRUE,
                              kind |-> "Tree"]
    /\ Len(applied.arg.contents) = 2
    /\ applied.out.value = [base |-> <<Normal(<<"a">>), Normal(<<"b">>)>>,
                            default_output |-> <<CurDir>>]

\* a listing of the single file a/b: base a, default output "."
C26_SingleFileReached ==
    /\ Planned26
    /\ applied.arg.contents = <<Item(<<"a", "/", "b">>, <<"b">>, "File")>>
    /\ applied.out.value = [base |-> <<Normal(<<"a">>)>>, default_output |-> <<CurDir>>]

----------------------------------------------------------------------------
(* Extraction from the archive (SpecZipExtract) *)

\* the files of the archive that are below the directory dir
FilesBelow(dir) ==
    {entries[i].path :
        i \in {j \in 1..Len(entries) :
                 /\ entries[j].type = "File"
                 /\ dir = <<>> \/ IsPrefixOf(dir \o <<"/">>, entries[j].path)}}

\* the entries the request asks for: for a tree the files below its path,
\* for a single file the entry of that name
Wanted ==
    IF request.kind = "Blob"
    THEN {entries[i].path :
            i \in {j \in 1..Len(entries) : ZipName(entries[j]) = zip_prefix \o request.path}}
    ELSE FilesBelow(request.path)

ZipPlanned == pipeline = "Zip" /\ ppc \in {"collected", "gated", "done"}

TaskPaths == {tasks[i].item.path : i \in 1..Len(tasks)}

\* C28 as stated: for a tree request with path p the archive pipeline
\* extracts exactly the non-directory entries located under the directory
\* <repo>-<branch>/p and no entry outside it, in particular not a sibling file
\* or directory whose name merely begins with p; for a single-file request it
\* extracts exactly the entry whose name equals <repo>-<branch>/p; if nothing
\* matches it fails without writing.
C28_AsStated ==
    /\ ZipPlanned => TaskPaths = Wanted
    /\ (pipeline = "Zip" /\ ppc \notin {"start", "listed"} /\ Wanted = {}) =>
          (ppc = "failed" /\ fs = fs0)

\* what the code extracts for a tree: every file whose name begins with the
\* text <repo>-<branch>/p
C28_ByNamePrefix ==
    ZipPlanned =>
        TaskPaths =
            (IF request.kind = "Blob" THEN Wanted
             ELSE {entries[i].path :
                     i \in {j \in 1..Len(entries) :
                              /\ entries[j].type = "File"
                              /\ IsPrefixOf(request.path, entries[j].path)}})

\* the request for the directory a is done, and the files ax and ab/y, which
\* are beside a, were written below the output directory
C28_SiblingsExtracted ==
    /\ pipeline = "Zip"
    /\ ppc = "done"
    /\ request = TreeRequest
    /\ <<Normal(<<"a">>), Normal(<<"a", "x">>)>> \in DOMAIN fs
    /\ fs[<<Normal(<<"a">>), Normal(<<"a", "x">>)>>] = "new"
    /\ <<Normal(<<"a">>), Normal(<<"a", "b">>), Normal(<<"y">>)>> \in DOMAIN fs

\* in an archive where no name beside p begins with p, C28 holds as stated
C28_HoldsWithoutSiblings == entries = Branch => C28_AsStated


----------------------------------------------------------------------------
(* C29: the URLs of one command line *)

\* the files that the call in progress planned to write
TargetsNow == {Norm(tasks[i].target_path) : i \in 1..Len(tasks)}

\* URLs are taken one at a time in the order given, each after the one
\* before it returned Ok
OneByOneInOrder ==
    /\ \A i \in 1..Len(started) : started[i].idx = i
    /\ \A i \in 1..(Len(started) - 1) : started[i].res.ok
    /\ main_pc = "loop" => Len(started) = url_idx - 1
    /\ main_pc \in {"calling", "err"} =>
          /\ Len(started) = url_idx
          /\ request = urls[url_idx]
    /\ main_pc = "ok" => Len(started) = Len(urls)

\* the first Err is what main returns, and the URLs after it were not started
StopsAtFirstError ==
    main_pc = "err" =>
        /\ ~result.ok
        /\ main_err = result.err
        /\ Len(started) = url_idx
        /\ started[url_idx].res = result

\* what was there when a call started is still there later, and is as it was
\* unless the call in progress planned to write it
EarlierFilesRemain ==
    /\ \A i \in 1..Len(started) : \A j \in i..Len(started) :
          DOMAIN started[i].fsys \subseteq DOMAIN started[j].fsys
    /\ Len(started) > 0 =>
          LET before == started[Len(started)].fsys
          IN  /\ DOMAIN before \subseteq DOMAIN fs
              /\ main_pc \in {"calling", "err"} =>
                    \A p \in DOMAIN before : p \notin TargetsNow => fs[p] = before[p]

\* C29: main processes the URLs sequentially in the order given; when one
\* fails its error is returned and no later URL is processed, and the files
\* written for the earlier URLs remain
C29_SequentialFailFast ==
    /\ [](OneByOneInOrder /\ StopsAtFirstError /\ EarlierFilesRemain)
    /\ [][main_pc = "err" => main_pc' = "err" /\ started' = started /\ fs' = fs]_vars

\* the second of three URLs failed after the first had written its files
C29_Witness ==
    /\ main_pc = "err"
    /\ Len(urls) = 3
    /\ url_idx = 2
    /\ started[2].fsys # NoFiles
    /\ \A p \in DOMAIN started[2].fsys : fs[p] = "new"

\* three URLs were processed and main returned Ok
C29_AllDoneReached ==
    /\ main_pc = "ok"
    /\ Len(started) = 3

\* the failing URL left a broken file next to the files of the earlier URL
C29_PartialReached ==
    /\ main_pc = "err"
    /\ url_idx = 2
    /\ \E p \in DOMAIN fs : fs[p] = "partial" /\ p \notin DOMAIN started[2].fsys
    /\ \E p \in DOMAIN fs : fs[p] = "new"


----------------------------------------------------------------------------
(* C30: the progress counters of a fan-out *)

JobsDone == {i \in DOMAIN jobs : jobs[i].pc = "done"}

SizesDone == [i \in DOMAIN jobs |-> IF i \in JobsDone THEN jobs[i].size ELSE None]

\* at every moment the counters account for exactly the tasks that completed
CountersFollowCompletions ==
    fan_pc \in {"running", "ok", "failed"} =>
        /\ progress.downloaded_files = Cardinality(JobsDone)
        /\ progress.downloaded_bytes = Min(KnownSum(SizesDone), U64Max)

\* the completion of a task of unknown size leaves downloaded_bytes as it was
UnknownSizeLeavesBytes ==
    \A i \in DOMAIN jobs :
        (jobs[i].pc = "locked" /\ jobs'[i].pc = "done" /\ ~jobs[i].size.some) =>
            progress'.downloaded_bytes = progress.downloaded_bytes

\* C30 as stated: after a successful pipeline downloaded_files is the number
\* of tasks and downloaded_bytes is the sum of the known task sizes
C30_AsStated ==
    fan_pc = "ok" =>
        /\ progress.downloaded_files = Len(jobs)
        /\ progress.downloaded_bytes = KnownSum(SizesOf(jobs))

\* C30: the counters are updated once per completed file under the one mutex
\* and no update is lost; after a successful pipeline downloaded_files is the
\* number of tasks and downloaded_bytes is the sum of the known task sizes,
\* held at the largest u64 when the sum is above it; a task of unknown size
\* completes like the others and leaves downloaded_bytes as it was
C30_CountersSaturate ==
    /\ [](CountersFollowCompletions
          /\ (fan_pc = "ok" =>
                 /\ progress.downloaded_files = Len(jobs)
                 /\ progress.downloaded_bytes = Min(KnownSum(SizesOf(jobs)), U64Max)))
    /\ [][UnknownSizeLeavesBytes]_vars

\* three tasks ran two at a time, one of unknown size, and the pipeline
\* returned Ok with the plain sum in downloaded_bytes
C30_Witness ==
    /\ fan_pc = "ok"
    /\ parallel = MaxParallel
    /\ Len(jobs) = 3
    /\ \E i \in DOMAIN jobs : ~jobs[i].size.some
    /\ progress.downloaded_bytes = 2

\* the pipeline returned Ok with downloaded_bytes held at the largest u64
C30_SaturatedReached ==
    /\ fan_pc = "ok"
    /\ KnownSum(SizesOf(jobs)) > U64Max
    /\ progress.downloaded_bytes = U64Max

\* a task waits for the guard while another task holds it
C30_ContendedReached ==
    \E i, j \in DOMAIN jobs : pmutex = i /\ jobs[j].pc = "lock"


----------------------------------------------------------------------------
(* C31: a denied overwrite in auto mode *)

Denied(g) == g.res \in {"RefusedOverwrite", "Cancelled"}

DeniedGates == {i \in 1..Len(gate_log) : Denied(gate_log[i])}

\* no strategy is attempted after the one whose gate denied
C31_NoFurtherStrategy ==
    \A i \in DeniedGates : Len(attempts) = gate_log[i].run

\* the user is not asked again after a denial
C31_NoSecondPrompt ==
    \A i \in DeniedGates : \A j \in (i + 1)..Len(gate_log) : ~gate_log[j].prompted

\* nothing is written after a denial
C31_NothingWritten ==
    \A i \in DeniedGates : fs = gate_log[i].fsys

\* C31 as stated: in auto mode, once the overwrite gate of a strategy denies,
\* no further strategy is attempted, the user is not prompted a second time,
\* and no target is written by any pipeline
C31_AsStated == C31_NoFurtherStrategy /\ C31_NoSecondPrompt /\ C31_NothingWritten

\* the user answered no at the gate of the first strategy and was asked
\* again at the gate of the second
C31_PromptedTwice ==
    /\ Len(gate_log) >= 2
    /\ gate_log[1].res = "Cancelled"
    /\ gate_log[2].prompted
    /\ gate_log[2].run = 2


----------------------------------------------------------------------------
(* C32: running the API pipeline again after an aborted run *)

\* the re-run is under way, and the first run had failed leaving a complete
\* file and a partial file
RerunAfterAbort ==
    /\ Len(started) = 2
    /\ ~started[1].res.ok
    /\ \E p \in DOMAIN started[2].fsys : started[2].fsys[p] = "new"
    /\ \E p \in DOMAIN started[2].fsys : started[2].fsys[p] = "partial"

\* failures of the network, the forge or the disk
EnvErrors == {"IoError", "NetworkError", "RemoteError", "CorruptPayload"}

\* C32 as stated: after a run of the API pipeline that was aborted
\* mid-download, the same request run again without --force and without a
\* terminal resumes and completes: it fails only where the environment fails,
\* and when it returns Ok every target holds its payload
C32_AsStated ==
    RerunAfterAbort =>
        /\ ppc = "failed" => perr[Len(perr)].msg \in EnvErrors
        /\ spc = "returned" /\ result.ok =>
              \A i \in 1..Len(tasks) : fs[Norm(tasks[i].target_path)] = "new"

\* what the code does: the re-run never passes the gate, writes nothing and
\* returns an error
C32_RerunIsRefused ==
    RerunAfterAbort =>
        /\ ppc \notin {"gated", "done"}
        /\ fs = started[2].fsys
        /\ spc = "returned" => ~result.ok
        /\ \A i \in 1..Len(gate_log) :
              gate_log[i].fsys = started[2].fsys => gate_log[i].res = "RefusedOverwrite"

\* the re-run returned the refusal
C32_RefusedReached ==
    /\ RerunAfterAbort
    /\ spc = "returned"
    /\ result.err = <<E("RefusedOverwrite")>>


----------------------------------------------------------------------------
(* C33: what a successful download_file leaves at the target *)

\* the response that was written into the file
WrittenFrom == IF dcall.rerequested THEN dcall.fresh ELSE dcall.ranged

\* the forge answered with the payload of the item: all of it with 200, or
\* with 206 the part of it from the first byte the Range header asked for
AnsweredWithPayload ==
    IF ~dcall.rerequested /\ dcall.start > 0
    THEN /\ WrittenFrom.status = 206
         /\ dcall.start < Len(Canonical)
         /\ WrittenFrom.body = SubSeq(Canonical, dcall.start + 1, Len(Canonical))
    ELSE /\ WrittenFrom.status = 200
         /\ WrittenFrom.body = Canonical

ReturnedOk == dpc = "returned" /\ dres = DOk /\ AnsweredWithPayload

\* C33 as stated: whenever download_file returns success, the target holds
\* the full payload of the item, whatever was at the target before, with or
\* without a size or a hash, and whether the Range request got 206 or 200
C33_AsStated == ReturnedOk => tfile = FileOf(Canonical)

\* the same holds when the item carries the hash of the payload, or when
\* what was at the target was no file, an empty file or the payload's start
C33_HoldsWithHashOrPrefix ==
    (/\ ReturnedOk
     /\ \/ dcall.item.sha = Some(CanonicalSha)
        \/ dcall.before.kind # "file"
        \/ IsPrefixOf(dcall.before.bytes, Canonical))
    => tfile = FileOf(Canonical)

\* a file of another byte was resumed without a hash to check against
C33_AppendedReached ==
    /\ ReturnedOk
    /\ dcall.before = FileOf(<<9>>)
    /\ dcall.item.sha = None
    /\ tfile = FileOf(<<9, 2, 3>>)

\* a Range request answered 200 ended with the payload at the target
C33_RestartedReached ==
    /\ ReturnedOk
    /\ dcall.rerequested
    /\ dcall.ranged.status = 200
    /\ dcall.before = FileOf(<<9>>)
    /\ tfile = FileOf(Canonical)


----------------------------------------------------------------------------
(* C34: download_file against can_resume_download *)

\* the call opened the target for append and asked for a range
ResumeAttempted == dpc # "idle" /\ dcall.handle /\ dcall.start > 0

\* the size of the file that was at the target when the call began
PartialSize == Len(dcall.before.bytes)

\* C34 as stated: download_file attempts a resume only when
\* can_resume_download holds for the existing file and the expected size: the
\* file is not empty, the size is known and the file is shorter than it; with
\* an unknown size no resume is attempted
C34_AsStated ==
    ResumeAttempted =>
        /\ dcall.before.kind = "file"
        /\ can_resume_download(PartialSize, dcall.item.size, TRUE)

\* with a known size, and metadata() of the target read, the two agree, and
\* the partial file is removed at the start exactly when
\* should_replace_partial holds
C34_AgreesWhenSizeKnown ==
    (/\ dpc # "idle" /\ dcall.item.size.some /\ ~dcall.no_cache
     /\ dcall.before.kind = "file"
     /\ dres # DErr(<<E("failed to check for partial download"), E("io error")>>))
    => /\ ResumeAttempted <=> can_resume_download(PartialSize, dcall.item.size, TRUE)
       /\ (dcall.start = 0 /\ ~dcall.handle /\ PartialSize > 0)
              <=> should_replace_partial(PartialSize, dcall.item.size)

\* a file of one byte is resumed although the item gives no size
C34_UnknownSizeResumed ==
    /\ ResumeAttempted
    /\ dcall.item.size = None
    /\ dcall.before = FileOf(<<1>>)
    /\ dcall.start = 1

\* a file of two bytes of the three expected is resumed
C34_KnownSizeResumed ==
    /\ ResumeAttempted
    /\ dcall.item.size = Some(3)
    /\ dcall.before = FileOf(<<1, 2>>)


----------------------------------------------------------------------------
(* C35: the freshness test of load_cached_response against is_cache_fresh *)

FreshnessApplied == applied.fn = "freshness"

\* C35 as stated: for all u64 inputs the freshness decision inside
\* load_cached_response is that of is_cache_fresh, also for an entry stored
\* later than the current time, and it neither overflows nor panics
C35_AsStated ==
    FreshnessApplied =>
        /\ ~applied.out.load.panic
        /\ applied.out.load.value = applied.out.pure

\* the two agree whenever the entry was not stored later than the current time
C35_AgreesUnlessClockWentBack ==
    (FreshnessApplied /\ applied.arg[1] <= applied.arg[2]) =>
        applied.out.load = Returned(applied.out.pure)

\* an entry stored later than now: is_cache_fresh says fresh, the loader
\* panics
C35_PanicReached ==
    /\ FreshnessApplied
    /\ applied.arg = <<1, 0, 2>>
    /\ applied.out.pure
    /\ applied.out.load = Panicked

\* the same entry in a build without overflow checks: the loader says expired
C35_WrapReached ==
    /\ FreshnessApplied
    /\ applied.arg = <<1, 0, 2>>
    /\ applied.out.pure
    /\ applied.out.load = Returned(FALSE)


----------------------------------------------------------------------------
(* C36: what send_github_request_cached stores *)

HasValidator(r) == r.etag.some \/ r.last_modified.some

\* the wrapper returned a body without sending a request
ServedFromCache ==
    call.kind = "cached" /\ hpc = "returned" /\ hres.state = "ok" /\ sent = 0

\* the step after the response: the cache is written only with caching on,
\* after send_github_request returned Ok and the body was read, for a response
\* with a validator; and once the body is read the wrapper returns it,
\* whatever became of the write
StoreStep ==
    hpc = "responded" =>
        /\ (cache' # cache \/ last_saved' # last_saved) =>
              /\ ~call.no_cache
              /\ sres.state = "ok"
              /\ sres.resp.readable
              /\ HasValidator(sres.resp)
        /\ sres.resp.readable => hres' = HOk(sres.resp.body)

\* C36: send_github_request_cached stores a response only when caching is
\* enabled, the request returned Ok and the response carries an ETag or a
\* Last-Modified header; a response with neither is never stored, so a later
\* request for the same URL is sent to the network again (only an entry with
\* a validator is ever served from the cache, and nothing is served where no
\* entry is); a failure to write the entry never fails the request
C36_StoresOnlyValidated ==
    /\ [][StoreStep]_vars
    /\ [](\A u \in Urls : IsEntry(last_saved[u]) => HasValidator(last_saved[u]))
    /\ [](ServedFromCache =>
             /\ IsEntry(call.found)
             /\ call.found = call.saved
             /\ HasValidator(call.found))

\* a response without a validator was returned with caching on, and nothing
\* was stored for its URL
C36_Witness ==
    /\ call.kind = "cached"
    /\ ~call.no_cache
    /\ hpc = "returned"
    /\ hres = HOk("b2")
    /\ ~HasValidator(sres.resp)
    /\ cache[cache_key(call.url)] = Missing
    /\ last_saved[call.url] = Missing

\* the response had a validator and the write failed: the body is returned
C36_SaveFailedReached ==
    /\ call.kind = "cached"
    /\ ~call.no_cache
    /\ hpc = "returned"
    /\ hres = HOk("b1")
    /\ HasValidator(sres.resp)
    /\ ~IsEntry(cache[cache_key(call.url)])

\* the response was stored and a later call is served from the cache
C36_StoredAndServed ==
    /\ ServedFromCache
    /\ hres = HOk("b1")

\* with caching off a response with a validator is returned and not stored
C36_NoCacheReached ==
    /\ call.kind = "cached"
    /\ call.no_cache
    /\ hpc = "returned"
    /\ hres = HOk("b1")
    /\ last_saved[call.url] = Missing

\* a 304 with a validator counts as returned Ok: it is stored with its empty
\* body
C36_NotModifiedStored ==
    /\ hpc = "returned"
    /\ sres.resp.status = 304
    /\ IsEntry(last_saved[call.url])
    /\ last_saved[call.url].body = ""


----------------------------------------------------------------------------
(* C37: validate_download_strategy against the strategy attempted first *)

\* validate_download_strategy was computed and a first strategy was attempted
ValidatedAndStarted ==
    applied.fn = "validate_download_strategy" /\ Len(attempts) >= 1

\* C37 as stated: validate_download_strategy returns the strategy that
\* download_github_path attempts first, for every strategy of the command
\* line, with and without a git client, and for every request
C37_AsStated ==
    ValidatedAndStarted => attempts[1] = applied.out.value

\* an explicit strategy is returned unchanged and is the only one attempted
C37_ExplicitUnchanged ==
    (ValidatedAndStarted /\ strategy # "Auto") =>
        /\ applied.out.value = strategy
        /\ attempts = <<strategy>>

\* in auto mode the two agree with a git client, for the whole repository
\* and for a file
C37_AgreesButForDirectories ==
    (ValidatedAndStarted /\ strategy = "Auto"
     /\ (git_avail \/ is_whole_repo(request) \/ request.kind = "Blob"))
    => attempts[1] = applied.out.value

\* auto mode without a git client on a directory: the function says archive,
\* the API pipeline is attempted first
C37_DirectoryReached ==
    /\ ValidatedAndStarted
    /\ strategy = "Auto"
    /\ ~git_avail
    /\ request = TreeRequest
    /\ applied.out.value = "Zip"
    /\ attempts[1] = "Api"


----------------------------------------------------------------------------
(* C38: what the VCS pipeline copies and the cached clone *)

\* the files of the branch a request names: all of them for the whole
\* repository, those below the path for a directory, the file itself
FilesOfRequest(req) ==
    {GitBranch[i].path : i \in {j \in 1..Len(GitBranch) :
        /\ GitBranch[j].type = "File"
        /\ Under(Components(req.path), GitBranch[j].path)}}

\* a run that ended well after earlier requests left a configuration behind
RanOverUsedCache(d) == d.ok /\ d.before.cloned /\ d.before.sparse.some

\* C38 as stated: the files the VCS pipeline copies for a request depend only
\* on the request and the content of the branch, not on what earlier requests
\* left in the cache directory: every run that ends well copies exactly the
\* files of the branch the request names
C38_AsStated ==
    \A i \in 1..Len(gdone) :
        gdone[i].ok => gdone[i].copied = FilesOfRequest(gdone[i].req)

\* a request below the root sets the configuration anew and copies exactly
\* the files under its path whatever was left behind; so does every request
\* over a clone that has no configuration
C38_HoldsBelowRoot ==
    \A i \in 1..Len(gdone) :
        (gdone[i].ok /\ (sparse_checkout_needed(gdone[i].req) \/ ~gdone[i].before.sparse.some))
            => gdone[i].copied = FilesOfRequest(gdone[i].req)

\* a sub-path request over a used cache copied the files under its path
C38_SubPathReached ==
    \E i \in 1..Len(gdone) :
        /\ RanOverUsedCache(gdone[i])
        /\ gdone[i].req.path # <<>>
        /\ gdone[i].before.sparse.v.target # gdone[i].req.path
        /\ gdone[i].copied = FilesOfRequest(gdone[i].req)

\* a whole-repository request after a request for directory a: the file of
\* directory c is not copied
C38_WholeAfterSubPath ==
    \E i \in 1..Len(gdone) :
        /\ RanOverUsedCache(gdone[i])
        /\ gdone[i].req = WholeRequest
        /\ gdone[i].before.sparse.v = [cone |-> TRUE, target |-> <<"a">>]
        /\ <<"c", "/", "z">> \notin gdone[i].copied
        /\ <<"c", "/", "z">> \in FilesOfRequest(WholeRequest)

====
